---- MODULE Spec2Model ----
(***************************************************************************)
(* Verification model of the headless-CMS administration client:          *)
(* the field configuration dialog (FieldConfigDialog), the field renderer  *)
(* (lib/field-renderer.tsx), the collection creation forms and the        *)
(* content-type edit page.                                                 *)
(*                                                                         *)
(* Strings whose characters matter (names, API ids, masks, typed values)   *)
(* are sequences of one-character strings.  JavaScript values stored in    *)
(* attributes/validations are tagged records (see Undef, Num, Str, Bool).  *)
(***************************************************************************)
EXTENDS Integers, Sequences, FiniteSets, TLC

(***************************************************************************)
(* Characters and strings                                                  *)
(***************************************************************************)
Digits == {"0", "1", "2", "3", "4", "5", "6", "7", "8", "9"}

LowerSeq == <<"a", "b", "c", "d", "e", "f", "g", "h", "i", "j", "k", "l", "m",
              "n", "o", "p", "q", "r", "s", "t", "u", "v", "w", "x", "y", "z">>

UpperSeq == <<"A", "B", "C", "D", "E", "F", "G", "H", "I", "J", "K", "L", "M",
              "N", "O", "P", "Q", "R", "S", "T", "U", "V", "W", "X", "Y", "Z">>

Lower == {LowerSeq[i] : i \in DOMAIN LowerSeq}

Upper == {UpperSeq[i] : i \in DOMAIN UpperSeq}

Letters == Lower \cup Upper

\* the characters the regular expression class \s matches, as far as modelled
Whitespace == {" ", "\t"}

HexChars == Digits \cup {"a", "b", "c", "d", "e", "f", "A", "B", "C", "D", "E", "F"}

\* all strings over alphabet A of length at most n
StringsUpTo(A, n) == UNION {[1..k -> A] : k \in 0..n}

\* String.prototype.toLowerCase on one character
ToLowerChar(c) ==
  IF c \in Upper THEN LowerSeq[CHOOSE i \in DOMAIN UpperSeq : UpperSeq[i] = c] ELSE c

ToLowerCase(s) == [i \in DOMAIN s |-> ToLowerChar(s[i])]

(***************************************************************************)
(* lib/field-renderer.tsx: applyMask and unmaskValue                       *)
(***************************************************************************)
IsSlot(maskChar) == maskChar \in {"9", "a", "*"}

\* the body of applyMask's for loop from mask position i on; valueIndex is
\* 1-based here (the next unconsumed character of value)
RECURSIVE ApplyMaskLoop(_, _, _, _, _, _)
ApplyMaskLoop(value, mask, slotChar, i, valueIndex, maskedValue) ==
  IF i > Len(mask) THEN maskedValue
  ELSE
    LET maskChar == mask[i]
        hasChar == valueIndex <= Len(value)
        valueChar == IF hasChar THEN value[valueIndex] ELSE ""
    IN  IF ~hasChar
        THEN ApplyMaskLoop(value, mask, slotChar, i + 1, valueIndex,
               Append(maskedValue, IF IsSlot(maskChar) THEN slotChar ELSE maskChar))
        ELSE IF maskChar = "9"
        THEN IF valueChar \in Digits
             THEN ApplyMaskLoop(value, mask, slotChar, i + 1, valueIndex + 1,
                    Append(maskedValue, valueChar))
             ELSE ApplyMaskLoop(value, mask, slotChar, i + 1, valueIndex,
                    Append(maskedValue, slotChar))
        ELSE IF maskChar = "a"
        THEN IF valueChar \in Letters
             THEN ApplyMaskLoop(value, mask, slotChar, i + 1, valueIndex + 1,
                    Append(maskedValue, valueChar))
             ELSE ApplyMaskLoop(value, mask, slotChar, i + 1, valueIndex,
                    Append(maskedValue, slotChar))
        ELSE IF maskChar = "*"
        THEN ApplyMaskLoop(value, mask, slotChar, i + 1, valueIndex + 1,
               Append(maskedValue, valueChar))
        ELSE ApplyMaskLoop(value, mask, slotChar, i + 1,
               IF valueChar = maskChar THEN valueIndex + 1 ELSE valueIndex,
               Append(maskedValue, maskChar))

applyMask(value, mask, slotChar) ==
  IF mask = <<>> \/ value = <<>> THEN value
  ELSE ApplyMaskLoop(value, mask, slotChar, 1, 1, <<>>)

\* does unmaskValue keep the character valueChar found under maskChar
UnmaskKeeps(maskChar, valueChar) ==
  \/ maskChar = "9" /\ valueChar \in Digits
  \/ maskChar = "a" /\ valueChar \in Letters
  \/ maskChar = "*"

RECURSIVE UnmaskLoop(_, _, _, _)
UnmaskLoop(value, mask, i, unmaskedValue) ==
  IF i > Len(value) THEN unmaskedValue
  ELSE UnmaskLoop(value, mask, i + 1,
         IF i <= Len(mask) /\ UnmaskKeeps(mask[i], value[i])
         THEN Append(unmaskedValue, value[i]) ELSE unmaskedValue)

\* unmaskValue without the character-class tests: whatever stands under a slot
\* of the mask is kept
unmaskValueNoClassTest(value, mask) ==
  IF mask = <<>> \/ value = <<>> THEN value
  ELSE SelectSeq([i \in DOMAIN value |->
                   IF i <= Len(mask) /\ IsSlot(mask[i]) THEN value[i] ELSE ""],
                 LAMBDA c : c # "")

unmaskValue(value, mask) ==
  IF mask = <<>> \/ value = <<>> THEN value
  ELSE UnmaskLoop(value, mask, 1, <<>>)

\* the number of '9' slots of a mask
RECURSIVE CountNine(_)
CountNine(mask) ==
  IF mask = <<>> THEN 0
  ELSE (IF Head(mask) = "9" THEN 1 ELSE 0) + CountNine(Tail(mask))

(***************************************************************************)
(* Field configuration: values, kinds and keys                             *)
(***************************************************************************)
\* A JavaScript value held under a key of Field.attributes, Field.validations
\* or the form: t is the typeof tag; n, s, b carry a number, string or
\* boolean; an array is known by its length n; the tooltipOptions object by
\* its position s and event e ("" when the key is absent from the object).
Undef == [t |-> "undefined", n |-> 0, s |-> "", b |-> FALSE, e |-> ""]

Num(x) == [t |-> "number", n |-> x, s |-> "", b |-> FALSE, e |-> ""]

Str(x) == [t |-> "string", n |-> 0, s |-> x, b |-> FALSE, e |-> ""]

Bool(x) == [t |-> "boolean", n |-> 0, s |-> "", b |-> x, e |-> ""]

Arr(len) == [t |-> "array", n |-> len, s |-> "", b |-> FALSE, e |-> ""]

Obj(position, event) == [t |-> "object", n |-> 0, s |-> position, b |-> FALSE, e |-> event]

EmptyArray == Arr(0)

\* !v of JavaScript: undefined, 0, "" and false are falsy; every array and
\* object is truthy
Falsy(v) ==
  \/ v.t = "undefined"
  \/ v.t = "number" /\ v.n = 0
  \/ v.t = "string" /\ v.s = ""
  \/ v.t = "boolean" /\ ~v.b

\* FieldTypeEnum (lib/store.ts): the values of the enumeration
FieldTypeEnum ==
  {"text", "number", "date", "image", "rich_text", "mask", "calendar", "editor",
   "password", "autocomplete", "cascade_select", "dropdown", "file",
   "multi_state_checkbox", "multi_select", "mention", "textarea", "otp",
   "rich_text_blocks", "rich_text_markdown", "boolean", "json", "email", "media",
   "enumeration", "relation", "uid", "component", "dynamic_zone", "input_mask",
   "input_textarea"}

\* every key of Field.attributes the dialog reads or writes
AttrKeys ==
  {"accept", "auto", "autoClear", "autoResize", "buttonLayout", "checkmark", "chooseLabel",
   "cols", "currency", "customUpload", "dateFormat", "decrementButtonClassName",
   "decrementButtonIcon", "disabled", "display", "dropdown", "editable", "emptyTemplate",
   "feedback", "field", "filter", "floatLabel", "forceSelection", "group", "helpText",
   "hideOnRangeSelection", "highlightOnSelect", "hourFormat", "icon", "iconTemplate",
   "incrementButtonClassName", "incrementButtonIcon", "inline", "invalid", "itemTemplate",
   "keyfilter", "loading", "locale", "mask", "max", "maxDate", "maxFileSize",
   "maxFractionDigits", "maxSelectedLabels", "mediumLabel", "min", "minDate",
   "minFileSize", "minFractionDigits", "mode", "multiple", "numberOfMonths", "object",
   "optionGroupChildren", "optionGroupLabel", "optionGroupTemplate", "optionLabel",
   "optionValue", "options", "panelFooterTemplate", "placeholder", "prefix", "promptLabel",
   "readOnlyInput", "rows", "selectionMode", "showButtonBar", "showButtons", "showClear",
   "showIcon", "showTime", "showWeek", "slotChar", "step", "strongLabel", "suffix",
   "timeOnly", "toggleMask", "tooltip", "tooltipEvent", "tooltipOptions",
   "tooltipPosition", "trigger", "uploadHandler", "url", "useGrouping", "value",
   "valueTemplate", "variant", "view", "virtualScrollerOptions", "weakLabel"}

\* every key of Field.validations the dialog reads or writes
ValKeys ==
  {"apiUrl", "mask", "maxFractionDigits", "maxLength", "maxValue", "minFractionDigits",
   "minLength", "minValue", "regex", "required", "unmask"}

\* fieldSchema.attributes: the keys of the zod object (others are stripped)
SchemaAttrKeys ==
  {"keyfilter", "placeholder", "helpText", "floatLabel", "invalid", "disabled", "icon",
   "tooltip", "tooltipPosition", "tooltipEvent", "autoClear", "dateFormat", "locale",
   "showIcon", "minDate", "maxDate", "readOnlyInput", "selectionMode",
   "hideOnRangeSelection", "showButtonBar", "showTime", "hourFormat", "view",
   "numberOfMonths", "variant", "timeOnly", "inline", "showWeek", "feedback",
   "promptLabel", "weakLabel", "mediumLabel", "strongLabel", "toggleMask", "dropdown",
   "object", "group", "forceSelection", "multiple", "checkmark", "highlightOnSelect",
   "editable", "optionGroupLabel", "optionGroupChildren", "optionGroupTemplate",
   "valueTemplate", "itemTemplate", "panelFooterTemplate", "filter", "showClear",
   "loading", "virtualScrollerOptions", "mode", "url", "accept", "minFileSize",
   "maxFileSize", "auto", "chooseLabel", "emptyTemplate", "customUpload", "uploadHandler",
   "options", "iconTemplate", "value", "optionValue", "display", "optionLabel",
   "maxSelectedLabels", "field", "rows", "cols", "trigger", "autoResize"}

\* fieldSchema.validations: the keys of the zod object
SchemaValKeys ==
  {"required", "minLength", "maxLength", "regex", "minValue", "maxValue",
   "minFractionDigits", "maxFractionDigits", "apiUrl"}

\* fieldSchema.attributes: the z.enum keys and their members
SchemaEnum(key) ==
  CASE key = "tooltipPosition" -> {"top", "bottom", "left", "right"}
    [] key = "tooltipEvent" -> {"hover", "focus"}
    [] key = "selectionMode" -> {"single", "multiple", "range"}
    [] key = "hourFormat" -> {"12", "24"}
    [] key = "view" -> {"month", "year"}
    [] key = "variant" -> {"filled", "outlined"}
    [] key = "mode" -> {"basic", "advanced"}
    [] key = "trigger" -> {"blur", "change"}
    [] OTHER -> {}

SchemaEnumKeys ==
  {"tooltipPosition", "tooltipEvent", "selectionMode", "hourFormat", "view", "variant",
   "mode", "trigger"}

\* fieldSchema.attributes: the type each key must have when it is set
SchemaAttrType(key) ==
  CASE key \in {"keyfilter", "placeholder", "helpText", "icon", "tooltip", "dateFormat",
               "locale", "minDate", "maxDate", "promptLabel", "weakLabel", "mediumLabel",
               "strongLabel", "optionGroupLabel", "optionGroupChildren",
               "optionGroupTemplate", "valueTemplate", "itemTemplate",
               "panelFooterTemplate", "url", "accept", "chooseLabel", "emptyTemplate",
               "uploadHandler", "iconTemplate", "optionValue", "display", "optionLabel",
               "field"} -> "str"
    [] key \in {"floatLabel", "invalid", "disabled", "autoClear", "showIcon",
               "readOnlyInput", "hideOnRangeSelection", "showButtonBar", "showTime",
               "timeOnly", "inline", "showWeek", "feedback", "toggleMask", "dropdown",
               "object", "group", "forceSelection", "multiple", "checkmark",
               "highlightOnSelect", "editable", "filter", "showClear", "loading", "auto",
               "customUpload", "autoResize"} -> "bool"
    [] key \in {"tooltipPosition", "tooltipEvent", "selectionMode", "hourFormat", "view",
               "variant", "mode", "trigger"} -> "str"
    [] key \in {"numberOfMonths", "minFileSize", "maxFileSize", "maxSelectedLabels", "rows",
               "cols"} -> "num"
    [] key \in {"virtualScrollerOptions", "value"} -> "any"
    [] key \in {"options"} -> "arr"
    [] OTHER -> "any"

SchemaValType(key) ==
  CASE key \in {"required"} -> "bool"
    [] key \in {"minLength", "maxLength", "minValue", "maxValue", "minFractionDigits",
               "maxFractionDigits"} -> "num"
    [] key \in {"regex", "apiUrl"} -> "str"
    [] OTHER -> "any"

\* attributes: {} and validations: {} of the form's defaultValues
EmptyAttributes == [k \in AttrKeys |-> Undef]

EmptyValidations == [k \in ValKeys |-> Undef]

(***************************************************************************)
(* State                                                                   *)
(***************************************************************************)
VARIABLES
  \* mask round trip: the raw input, the mask, the two results, the step
  mRaw, mMask, mMasked, mUnmasked, mPc,
  \* one rendered field of a content entry: its Field, the value held by the
  \* parent form, the keys typed so far, what the last handler did
  rField, rValue, rTyped, rLast,
  \* ContentTypeEdit: the component's useState values
  selectedFieldType, fieldToEdit, fieldConfigOpen, fieldTypeSelectorOpen,
  \* selectedCollection.fields of the collection store, the collectionsApi.update
  \* calls awaiting their response, the clock read by Date.now()
  fields, requests, now,
  \* FieldConfigDialog: the values held by useForm
  form,
  \* history: the Field last passed to onSave and what the update call carried,
  \* the values the user entered under attributes and validations, whether
  \* the user typed into the API ID input, the number of inputs made
  saved, sent, userSetA, userSetV, apiIdEdited, inputs,
  \* the collection creation form: which component, its three inputs and the
  \* dirtyFields flags of the two API ID inputs
  cfForm, cfName, cfSingular, cfPlural, cfDirtySingular, cfDirtyPlural,
  \* history: the API ID inputs the user typed into, the input changed last
  cfEdited, cfLast,
  \* the derivation of an API ID from one name
  dvName, dvApiId, dvPc,
  \* ContentTypeEdit: the field deletion dialog's useState values and the
  \* collectionsApi.update calls of handleDeleteField awaiting their response
  fieldToDelete, deleteFieldDialogOpen, deleteRequests,
  \* getPasswordStrength on one password
  pwPassword, pwStrength, pwPc,
  \* mapFieldTypeNameToEnum on one name: the kind returned, whether
  \* console.warn was called
  mpName, mpKind, mpWarned, mpPc,
  \* one field of a content entry drawn by one of the two forms: the form,
  \* the Field, the current value, what was rendered
  vwForm, vwField, vwValue, vwOutput,
  \* the JSON widget: the form it is in, the value held by the form, the
  \* text of the last edit, the arguments of the onChange calls it made
  jsForm, jsValue, jsText, jsCalls,
  \* the session: the token of the auth store, localStorage's cms_token,
  \* window.location.pathname, the API calls in flight, the number issued
  authToken, cmsToken, location, calls, issued,
  \* useFieldTypes: fieldTypeOptions, and fieldTypes, loading and error of
  \* the field type store
  ftOptions, ftTypes, ftLoading, ftError,
  \* history: the successful field type responses in arrival order, the
  \* response handled last
  ftArrivals, lastResponse,
  \* ContentForm.fieldGroups: collection.fields, the groups built, whether
  \* the computation returned or threw
  gpFields, gpGroups, gpPc,
  \* the NUMBER widget with its buttons: attributes.min, max and step of the
  \* Field, the value held by the form, what the last handler did
  nwField, nwValue, nwLast,
  \* the flags of a collection, the client path that wrote it last and the
  \* body of the request that path sent
  pkFlags, pkPath, pkBody, pkPc,
  \* the collections page: the ids of the collections of the store, its
  \* useState values, the collectionsApi.delete calls awaiting their response;
  \* history: the number of responses to writing calls handled so far
  collections, collectionToDelete, deleteConfirmOpen, collDeletes, answers,
  \* the create-collection dialog: createDialogOpen of the page, isLoading of
  \* the dialog, the await handleSaveCollection stands at, how the last
  \* creation ended
  createDialogOpen, isLoading, cdPc, cdLast

maskVars == <<mRaw, mMask, mMasked, mUnmasked, mPc>>

renderVars == <<rField, rValue, rTyped, rLast>>

pageVars == <<selectedFieldType, fieldToEdit, fieldConfigOpen, fieldTypeSelectorOpen>>

storeVars == <<fields, requests, now>>

historyVars == <<saved, sent, userSetA, userSetV, apiIdEdited, inputs>>

dialogVars == <<pageVars, storeVars, form, historyVars>>

collVars ==
  <<cfForm, cfName, cfSingular, cfPlural, cfDirtySingular, cfDirtyPlural, cfEdited, cfLast>>

deriveVars == <<dvName, dvApiId, dvPc>>

deleteVars == <<fieldToDelete, deleteFieldDialogOpen, deleteRequests>>

passwordVars == <<pwPassword, pwStrength, pwPc>>

mapVars == <<mpName, mpKind, mpWarned, mpPc>>

viewVars == <<vwForm, vwField, vwValue, vwOutput>>

jsonVars == <<jsForm, jsValue, jsText, jsCalls>>

fetchVars == <<ftOptions, ftTypes, ftLoading, ftError, ftArrivals>>

sessionVars == <<authToken, cmsToken, location, calls, issued, fetchVars, lastResponse>>

groupVars == <<gpFields, gpGroups, gpPc>>

numberVars == <<nwField, nwValue, nwLast>>

packVars == <<pkFlags, pkPath, pkBody, pkPc>>

failVars == <<collections, collectionToDelete, deleteConfirmOpen, collDeletes, answers>>

createVars == <<createDialogOpen, isLoading, cdPc, cdLast>>

laterVars == <<groupVars, numberVars, packVars, failVars, createVars>>

pureVars == <<passwordVars, mapVars, viewVars, jsonVars>>

vars ==
  <<maskVars, renderVars, dialogVars, collVars, deriveVars, deleteVars, pureVars, sessionVars,
    laterVars>>

\* what the actions of one part of the model leave alone
exceptMask ==
  <<renderVars, dialogVars, collVars, deriveVars, deleteVars, pureVars, sessionVars, laterVars>>

exceptRender ==
  <<maskVars, dialogVars, collVars, deriveVars, deleteVars, pureVars, sessionVars, laterVars>>

exceptDialog ==
  <<maskVars, renderVars, collVars, deriveVars, deleteVars, pureVars, sessionVars, laterVars>>

exceptColl ==
  <<maskVars, renderVars, dialogVars, deriveVars, deleteVars, pureVars, sessionVars, laterVars>>

exceptDerive ==
  <<maskVars, renderVars, dialogVars, collVars, deleteVars, pureVars, sessionVars, laterVars>>

earlierVars == <<maskVars, renderVars, dialogVars, collVars, deriveVars>>

exceptPassword ==
  <<earlierVars, deleteVars, mapVars, viewVars, jsonVars, sessionVars, laterVars>>

exceptMap ==
  <<earlierVars, deleteVars, passwordVars, viewVars, jsonVars, sessionVars, laterVars>>

exceptView ==
  <<earlierVars, deleteVars, passwordVars, mapVars, jsonVars, sessionVars, laterVars>>

exceptJson ==
  <<earlierVars, deleteVars, passwordVars, mapVars, viewVars, sessionVars, laterVars>>

\* the session leaves the page's dialogs alone, fieldTypeSelectorOpen apart
exceptSession ==
  <<maskVars, renderVars, collVars, deriveVars, deleteVars, pureVars,
    selectedFieldType, fieldToEdit, fieldConfigOpen, storeVars, form, historyVars, laterVars>>

\* no FieldKind: the initial null of selectedFieldType
Null == "null"

\* Field.id: undefined until one is assigned; a temporary id carries the time
NoId == [temp |-> FALSE, n |-> 0]

TempId(time) == [temp |-> TRUE, n |-> time]

BackendId(n) == [temp |-> FALSE, n |-> n]

\* the optional prop field when it is undefined, and a Field in general: the
\* names are strings of characters, the other members are values
NoField ==
  [id |-> NoId, name |-> <<>>, apiId |-> <<>>, type |-> "undefined", required |-> Undef,
   dependOn |-> Undef, uniqueId |-> Undef, displayName |-> <<>>, isVisible |-> Undef,
   getApiUrl |-> Undef, attributes |-> EmptyAttributes, validations |-> EmptyValidations]

\* the page before any dialog was opened, with no request in flight
PageIdle ==
  /\ selectedFieldType = Null
  /\ fieldToEdit = NoField
  /\ fieldConfigOpen = FALSE
  /\ fieldTypeSelectorOpen = FALSE
  /\ requests = <<>>
  /\ now = 0
  /\ form = NoField
  /\ saved = NoField
  /\ sent = <<>>
  /\ userSetA = EmptyAttributes
  /\ userSetV = EmptyValidations
  /\ apiIdEdited = FALSE
  /\ inputs = 0

DialogIdle == PageIdle /\ fields = <<>>

CollIdle ==
  /\ cfForm = "CollectionTypeDialog"
  /\ cfName = <<>>
  /\ cfSingular = <<>>
  /\ cfPlural = <<>>
  /\ cfDirtySingular = FALSE
  /\ cfDirtyPlural = FALSE
  /\ cfEdited = {}
  /\ cfLast = "none"

DeriveIdle == dvName = <<>> /\ dvApiId = <<>> /\ dvPc = "idle"

\* fieldToDelete is a Field.id, NoId standing for its initial null
DeleteIdle == fieldToDelete = NoId /\ deleteFieldDialogOpen = FALSE /\ deleteRequests = <<>>

PasswordIdle == pwPassword = <<>> /\ pwStrength = "none" /\ pwPc = "idle"

MapIdle == mpName = <<>> /\ mpKind = "none" /\ mpWarned = FALSE /\ mpPc = "idle"

ViewIdle ==
  vwForm = "ContentForm" /\ vwField = NoField /\ vwValue = <<>> /\ vwOutput = "none"

\* a value held under the key of a JSON field: t is its typeof tag ("array"
\* for an array), text the decimal digits of a number or the characters of a
\* string, items the elements of an array
JsonUndefined == [t |-> "undefined", text |-> <<>>, items |-> <<>>]

JsonNumber(digits) == [t |-> "number", text |-> digits, items |-> <<>>]

JsonString(chars) == [t |-> "string", text |-> chars, items |-> <<>>]

JsonArray(items) == [t |-> "array", text |-> <<>>, items |-> items]

NoEdit == [edited |-> FALSE, text |-> <<>>]

JsonIdle == jsForm = "ContentForm" /\ jsValue = JsonUndefined /\ jsText = NoEdit /\ jsCalls = <<>>

\* a token as the backend issues it
Jwt == "h.p.s"

\* the six options of the fallback effect of useFieldTypes
\* (a FieldTypeOption is modelled by its id and its type)
FallbackOptions ==
  <<[id |-> 1, type |-> "text"], [id |-> 2, type |-> "number"], [id |-> 3, type |-> "date"],
    [id |-> 4, type |-> "password"], [id |-> 5, type |-> "rich_text"],
    [id |-> 6, type |-> "textarea"]>>

NoResponse == [api |-> "none", status |-> 0]

\* the field type store and the hook once the page is loaded and the fetch
\* made on mount has answered with an empty list
FetchIdle ==
  /\ ftOptions = FallbackOptions
  /\ ftTypes = <<>>
  /\ ftLoading = FALSE
  /\ ftError = Null
  /\ ftArrivals = <<>>

\* logged in, on a page of the CMS, no call in flight
SessionIdle ==
  /\ authToken = Jwt
  /\ cmsToken = Jwt
  /\ location = "/content-types"
  /\ calls = {}
  /\ issued = 0
  /\ FetchIdle
  /\ lastResponse = NoResponse

PureIdle == PasswordIdle /\ MapIdle /\ ViewIdle /\ JsonIdle

GroupIdle == gpFields = <<>> /\ gpGroups = <<>> /\ gpPc = "idle"

\* null, as onChange(null) of the number input passes it
JsNull == [t |-> "null", n |-> 0, s |-> "", b |-> FALSE, e |-> ""]

NoClick == [handler |-> "none", called |-> FALSE, before |-> Undef, arg |-> Undef]

NumberWidgetIdle ==
  /\ nwField = [min |-> Undef, max |-> Undef, step |-> Undef]
  /\ nwValue = Undef
  /\ nwLast = NoClick

NoFlags == [apiIdPlural |-> <<>>, draftAndPublish |-> FALSE, isInternationally |-> FALSE]

\* the body of a request that writes a collection, by the properties this
\* part reads: whether it has additionalInformation, that text, and the
\* flags it carries as properties of its own
NoBody == [hasAdditionalInformation |-> FALSE, additionalInformation |-> <<>>, own |-> NoFlags]

PackIdle == pkFlags = NoFlags /\ pkPath = "none" /\ pkBody = NoBody /\ pkPc = "idle"

\* the collections page: no collection chosen for deletion, no call in flight
FailIdle ==
  /\ collections = <<>>
  /\ collectionToDelete = "null"
  /\ deleteConfirmOpen = FALSE
  /\ collDeletes = <<>>
  /\ answers = 0

CreateIdle ==
  createDialogOpen = FALSE /\ isLoading = FALSE /\ cdPc = "idle" /\ cdLast = "none"

LaterIdle == GroupIdle /\ NumberWidgetIdle /\ PackIdle /\ FailIdle /\ CreateIdle

RestIdle == DeleteIdle /\ PureIdle /\ SessionIdle /\ LaterIdle

(***************************************************************************)
(* Mask round trip (applyMask, then unmaskValue, on one input)             *)
(***************************************************************************)
MaxMaskLen == 4

MaxRawLen == 3

\* mask characters tried: the digit slot, two non-digit literals, a digit literal
MaskAlphabet == {"9", "-", " ", "1"}

RawDigits == {"1", "5"}

PhoneMask == <<"9", "9", "9", "-", "9", "9", "9", "-", "9", "9", "9", "9">>

PhoneRaw == <<"5", "5", "5", "1", "2", "3", "4", "5", "6", "7">>

PhoneMasked == <<"5", "5", "5", "-", "1", "2", "3", "-", "4", "5", "6", "7">>

MaskInputs ==
  {<<PhoneRaw, PhoneMask>>} \cup
  {<<raw, mask>> \in StringsUpTo(RawDigits, MaxRawLen) \X StringsUpTo(MaskAlphabet, MaxMaskLen) :
     Len(raw) <= CountNine(mask)}

MaskIdle == mRaw = <<>> /\ mMask = <<>> /\ mMasked = <<>> /\ mUnmasked = <<>> /\ mPc = "idle"

\* applyMask(raw, mask): the slot character is the parameter's default '_'
DoApplyMask ==
  /\ mPc = "raw"
  /\ mMasked' = applyMask(mRaw, mMask, "_")
  /\ mPc' = "masked"
  /\ UNCHANGED <<mRaw, mMask, mUnmasked>>
  /\ UNCHANGED exceptMask

DoUnmaskValue ==
  /\ mPc = "masked"
  /\ mUnmasked' = unmaskValue(mMasked, mMask)
  /\ mPc' = "unmasked"
  /\ UNCHANGED <<mRaw, mMask, mMasked>>
  /\ UNCHANGED exceptMask

(***************************************************************************)
(* lib/field-renderer.tsx: renderField, the handlers of one rendered field  *)
(***************************************************************************)
\* FieldTypeEnum values (lib/store.ts)
TEXT == "text"

INPUT_TEXTAREA == "input_textarea"

INPUT_MASK == "input_mask"

AllIn(s, S) == \A i \in DOMAIN s : s[i] \in S

\* s without an optional leading minus sign
DropMinus(s) == IF s # <<>> /\ s[1] = "-" THEN Tail(s) ELSE s

\* ^\d*\.?\d*$, or ^\d*\.?\d{0,maxFrac}$ when maxFrac >= 0
MatchDecimal(s, maxFrac) ==
  \E k \in 0..Len(s) :
    /\ AllIn(SubSeq(s, 1, k), Digits)
    /\ LET rest == SubSeq(s, k + 1, Len(s))
           fracOk(f) == AllIn(f, Digits) /\ (maxFrac < 0 \/ Len(f) <= maxFrac)
       IN  \/ fracOk(rest)
           \/ rest # <<>> /\ rest[1] = "." /\ fracOk(Tail(rest))

\* the test of one case of the keyfilter switch
MatchKeyfilter(keyfilter, inputValue) ==
  CASE keyfilter = "int" -> AllIn(DropMinus(inputValue), Digits)
    [] keyfilter = "pint" -> AllIn(inputValue, Digits)
    [] keyfilter = "num" -> MatchDecimal(DropMinus(inputValue), -1)
    [] keyfilter = "pnum" -> MatchDecimal(inputValue, -1)
    [] keyfilter = "money" -> MatchDecimal(DropMinus(inputValue), 2)
    [] keyfilter = "hex" -> AllIn(inputValue, HexChars)
    [] keyfilter = "alpha" -> AllIn(inputValue, Letters)
    [] keyfilter = "alphanum" -> AllIn(inputValue, Letters \cup Digits)
    [] OTHER -> TRUE

\* the key filters with a case in the TEXT widget's switch, 'email' apart
TextKeyfilters == {"int", "pint", "num", "pnum", "money", "hex", "alpha", "alphanum"}

\* the key filters with a case in the INPUT_TEXTAREA widget's switch
TextareaKeyfilters == {"int", "pint", "num", "pnum", "alpha", "alphanum"}

\* TEXT onChange: does the edit reach onChange
TextPasses(keyfilter, inputValue) ==
  \/ keyfilter = ""
  \/ keyfilter \notin TextKeyfilters
  \/ MatchKeyfilter(keyfilter, inputValue)

\* INPUT_TEXTAREA onChange: does the edit reach onChange
TextareaPasses(keyfilter, inputValue) ==
  \/ keyfilter = ""
  \/ keyfilter \notin TextareaKeyfilters
  \/ MatchKeyfilter(keyfilter, inputValue)

\* new RegExp(pattern) for the patterns modelled: "(" does not compile
RegexCompiles(pattern) == pattern # "("

\* regex.test(value) for the patterns modelled
RegexTest(pattern, value) ==
  CASE pattern = "^[0-9]+$" -> value # <<>> /\ AllIn(value, Digits)
    [] OTHER -> TRUE

\* TEXT onBlur with the length test off by one (<= for <)
TextBlurValidOffByOne(validations, value) ==
  /\ ~(validations.minLength # 0 /\ Len(value) <= validations.minLength)
  /\ ~(validations.maxLength # 0 /\ Len(value) > validations.maxLength)

\* TEXT onBlur: isValid
TextBlurValid(validations, value) ==
  /\ ~(validations.minLength # 0 /\ Len(value) < validations.minLength)
  /\ ~(validations.maxLength # 0 /\ Len(value) > validations.maxLength)
  /\ ~(/\ validations.regex # "" /\ value # <<>>
       /\ RegexCompiles(validations.regex)
       /\ ~RegexTest(validations.regex, value))

\* INPUT_TEXTAREA onBlur: isValid
TextareaBlurValid(validations, value) ==
  /\ ~(validations.required /\ value = <<>>)
  /\ ~(validations.minLength # 0 /\ Len(value) < validations.minLength)
  /\ ~(validations.maxLength # 0 /\ Len(value) > validations.maxLength)

(***************************************************************************)
(* ContentForm (handleFieldChange) with one field rendered by renderField  *)
(***************************************************************************)
MaxValueLen == 4

MaxKeys == 10

\* characters the user types into a text widget
KeyAlphabet == {"-", "1", ".", "a", "G"}

\* digits the user types into the masked widget
TypedDigits == {"1", "2"}

\* character-level edits of the displayed string: one character inserted or
\* one character deleted, anywhere
Edits(value, alphabet) ==
  {SubSeq(value, 1, k) \o <<c>> \o SubSeq(value, k + 1, Len(value)) :
     k \in 0..Len(value), c \in alphabet}
  \cup {SubSeq(value, 1, k - 1) \o SubSeq(value, k + 1, Len(value)) : k \in 1..Len(value)}

NoValidations == [required |-> FALSE, minLength |-> 0, maxLength |-> 0, regex |-> ""]

\* a Field as renderField reads it: attributes.keyfilter/mask/slotChar ("" and
\* <<>> stand for unset) and validations (FALSE, 0 and "" stand for unset)
RenderField(type, keyfilter, mask, slotChar, validations) ==
  [type |-> type, keyfilter |-> keyfilter, mask |-> mask, slotChar |-> slotChar,
   invalid |-> FALSE, validations |-> validations]

NoHandler == [handler |-> "none", called |-> FALSE, matched |-> TRUE, isValid |-> TRUE]

\* handleFieldChange: formData[field.apiId] = value
HandleFieldChange(value, matched) ==
  /\ rValue' = value
  /\ rLast' = [handler |-> "change", called |-> TRUE, matched |-> matched, isValid |-> TRUE]

\* a change handler that returned before calling onChange
Rejected(matched) ==
  /\ rValue' = rValue
  /\ rLast' = [handler |-> "change", called |-> FALSE, matched |-> matched, isValid |-> TRUE]

\* TEXT: onChange of the input
TextChange ==
  /\ rField.type = TEXT
  /\ \E inputValue \in Edits(rValue, KeyAlphabet) :
       /\ Len(inputValue) <= MaxValueLen
       /\ IF TextPasses(rField.keyfilter, inputValue)
          THEN HandleFieldChange(inputValue, MatchKeyfilter(rField.keyfilter, inputValue))
          ELSE Rejected(MatchKeyfilter(rField.keyfilter, inputValue))
  /\ UNCHANGED <<rField, rTyped>>
  /\ UNCHANGED exceptRender

\* INPUT_TEXTAREA: onChange of the textarea
TextareaChange ==
  /\ rField.type = INPUT_TEXTAREA
  /\ \E inputValue \in Edits(rValue, KeyAlphabet) :
       /\ Len(inputValue) <= MaxValueLen
       /\ IF TextareaPasses(rField.keyfilter, inputValue)
          THEN HandleFieldChange(inputValue, MatchKeyfilter(rField.keyfilter, inputValue))
          ELSE Rejected(MatchKeyfilter(rField.keyfilter, inputValue))
  /\ UNCHANGED <<rField, rTyped>>
  /\ UNCHANGED exceptRender

\* TEXT: onBlur.  The handler computes isValid and logs it; newAttributes is
\* built and dropped, so the Field (attributes.invalid) is not changed.
TextBlur ==
  /\ rField.type = TEXT
  /\ rLast' = [handler |-> "blur", called |-> FALSE, matched |-> TRUE,
               isValid |-> TextBlurValid(rField.validations, rValue)]
  /\ UNCHANGED <<rField, rValue, rTyped>>
  /\ UNCHANGED exceptRender

\* INPUT_TEXTAREA: onBlur
TextareaBlur ==
  /\ rField.type = INPUT_TEXTAREA
  /\ rLast' = [handler |-> "blur", called |-> FALSE, matched |-> TRUE,
               isValid |-> TextareaBlurValid(rField.validations, rValue)]
  /\ UNCHANGED <<rField, rValue, rTyped>>
  /\ UNCHANGED exceptRender

\* INPUT_MASK: onChange when the user types digit d at the end of the
\* displayed value: the event carries the displayed string with d appended
MaskTypeDigit ==
  /\ rField.type = INPUT_MASK
  /\ Len(rTyped) < MaxKeys
  /\ \E d \in TypedDigits :
       LET rawValue == rValue \o <<d>>
           maskedValue == applyMask(rawValue, rField.mask,
                                    IF rField.slotChar = "" THEN "_" ELSE rField.slotChar)
       IN  /\ HandleFieldChange(maskedValue, TRUE)
           /\ rTyped' = Append(rTyped, d)
  /\ UNCHANGED rField
  /\ UNCHANGED exceptRender

RenderIdle ==
  /\ rField = RenderField(TEXT, "", <<>>, "", NoValidations)
  /\ rValue = <<>>
  /\ rTyped = <<>>
  /\ rLast = NoHandler

(***************************************************************************)
(* Specifications of the renderer                                          *)
(***************************************************************************)
MaskNext == DoApplyMask \/ DoUnmaskValue

MaskInit ==
  /\ RenderIdle
  /\ DialogIdle
  /\ CollIdle
  /\ DeriveIdle
  /\ RestIdle
  /\ \E inp \in MaskInputs : mRaw = inp[1] /\ mMask = inp[2]
  /\ mMasked = <<>>
  /\ mUnmasked = <<>>
  /\ mPc = "raw"

SpecMask == MaskInit /\ [][MaskNext]_vars

\* the masked widget with the phone mask, as the default-fill leaves it
TypeInit ==
  /\ MaskIdle
  /\ DialogIdle
  /\ CollIdle
  /\ DeriveIdle
  /\ RestIdle
  /\ rField = RenderField(INPUT_MASK, "", PhoneMask, "_", NoValidations)
  /\ rValue = <<>>
  /\ rTyped = <<>>
  /\ rLast = NoHandler

SpecType == TypeInit /\ [][MaskTypeDigit]_vars

KeyInit ==
  /\ MaskIdle
  /\ DialogIdle
  /\ CollIdle
  /\ DeriveIdle
  /\ RestIdle
  /\ \E type \in {TEXT, INPUT_TEXTAREA}, keyfilter \in TextKeyfilters \cup {""} :
       rField = RenderField(type, keyfilter, <<>>, "", NoValidations)
  /\ rValue = <<>>
  /\ rTyped = <<>>
  /\ rLast = NoHandler

KeyNext == TextChange \/ TextareaChange

SpecKey == KeyInit /\ [][KeyNext]_vars

BlurValidations ==
  [required : BOOLEAN, minLength : {0, 3}, maxLength : {0, 3}, regex : {"", "^[0-9]+$", "("}]

BlurInit ==
  /\ MaskIdle
  /\ DialogIdle
  /\ CollIdle
  /\ DeriveIdle
  /\ RestIdle
  /\ \E type \in {TEXT, INPUT_TEXTAREA}, validations \in BlurValidations :
       rField = RenderField(type, "", <<>>, "", validations)
  /\ rValue = <<>>
  /\ rTyped = <<>>
  /\ rLast = NoHandler

BlurNext == TextChange \/ TextareaChange \/ TextBlur \/ TextareaBlur

SpecBlur == BlurInit /\ [][BlurNext]_vars

(***************************************************************************)
(* FieldConfigDialog: API ID derivation, form defaults, schema, onSubmit   *)
(***************************************************************************)
\* the characters of the class [a-z0-9_]
IdChars == Lower \cup Digits \cup {"_"}

\* s with its leading whitespace removed
RECURSIVE SkipWhitespace(_)
SkipWhitespace(s) ==
  IF s # <<>> /\ Head(s) \in Whitespace THEN SkipWhitespace(Tail(s)) ELSE s

\* .replace(/\s+/g, '_'): every maximal run of whitespace becomes one "_"
RECURSIVE ReplaceWhitespaceRunsEach(_)
ReplaceWhitespaceRunsEach(s) ==
  IF s = <<>> THEN <<>>
  ELSE IF Head(s) \in Whitespace THEN <<"_">> \o ReplaceWhitespaceRunsEach(Tail(s))
  ELSE <<Head(s)>> \o ReplaceWhitespaceRunsEach(Tail(s))

RECURSIVE ReplaceWhitespaceRuns(_)
ReplaceWhitespaceRuns(s) ==
  IF s = <<>> THEN <<>>
  ELSE IF Head(s) \in Whitespace
       THEN <<"_">> \o ReplaceWhitespaceRuns(SkipWhitespace(Tail(s)))
       ELSE <<Head(s)>> \o ReplaceWhitespaceRuns(Tail(s))

\* .replace(/[^a-z0-9_]/g, '')
StripNonIdChars(s) ==
  LET Keep(c) == c \in IdChars IN SelectSeq(s, Keep)

\* name.toLowerCase().replace(/\s+/g, '_').replace(/[^a-z0-9_]/g, '')
derive(name) == StripNonIdChars(ReplaceWhitespaceRuns(ToLowerCase(name)))

\* x || d and x !== undefined ? x : d on values
Or(x, d) == IF Falsy(x) THEN d ELSE x

Defined(x, d) == IF x.t # "undefined" THEN x ELSE d

\* the defaultValues of useForm, read when the dialog component mounts; the
\* members unique, description, defaultValue and the conditional members
\* (enumValues, relation*, component*, allowedComponents, min, max) pass
\* through onSubmit untouched and are left out
FormDefaults(field, fieldType) ==
  [id |-> NoId,
   name |-> field.name,
   apiId |-> field.apiId,
   type |-> IF field.type # "undefined" THEN field.type ELSE fieldType,
   required |-> Or(field.required, Bool(FALSE)),
   dependOn |-> Or(field.dependOn, Str("")),
   uniqueId |-> Or(field.uniqueId, Str("")),
   displayName |-> field.displayName,
   isVisible |-> Defined(field.isVisible, Bool(TRUE)),
   getApiUrl |-> Or(field.getApiUrl, Str("")),
   attributes |-> field.attributes,
   validations |-> field.validations]

\* whether value v passes the zod type of a schema key
HasSchemaType(v, type) ==
  \/ v.t = "undefined"
  \/ type = "any"
  \/ type = "str" /\ v.t = "string"
  \/ type = "num" /\ v.t = "number"
  \/ type = "bool" /\ v.t = "boolean"
  \/ type = "arr" /\ v.t = "array"

\* fieldSchema: the resolver lets the submission through only when this holds
SchemaValid(data) ==
  /\ Len(data.name) >= 2
  /\ Len(data.apiId) >= 2
  /\ \A i \in DOMAIN data.apiId : data.apiId[i] \in Letters \cup Digits \cup {"_"}
  /\ data.required.t = "boolean"
  /\ data.isVisible.t = "boolean"
  /\ \A k \in {"dependOn", "uniqueId", "getApiUrl"} : HasSchemaType(data[k], "str")
  /\ \A k \in SchemaAttrKeys :
       /\ HasSchemaType(data.attributes[k], SchemaAttrType(k))
       /\ (k \in SchemaEnumKeys /\ data.attributes[k].t = "string")
            => data.attributes[k].s \in SchemaEnum(k)
  /\ \A k \in SchemaValKeys : HasSchemaType(data.validations[k], SchemaValType(k))

\* the data the resolver hands to onSubmit: z.object keeps only the keys of
\* the schema
SchemaParse(data) ==
  [data EXCEPT
     !.attributes =
        [k \in AttrKeys |-> IF k \in SchemaAttrKeys THEN data.attributes[k] ELSE Undef],
     !.validations =
        [k \in ValKeys |-> IF k \in SchemaValKeys THEN data.validations[k] ELSE Undef]]

\* one assignment of the per-kind switch: tg names the object assigned to
\* (attributes, validations or the Field itself), op the right-hand side
FillStep(tg, key, op, dflt) == [tg |-> tg, key |-> key, op |-> op, dflt |-> dflt]

\* the per-kind switch of onSubmit, one step per assignment, in source order
FillSteps(type) ==
  CASE type \in {"text"} ->
       <<FillStep("a", "placeholder", "or", Str("Enter text...")),
         FillStep("a", "keyfilter", "or", Str("")),
         FillStep("a", "helpText", "or", Str("")),
         FillStep("a", "floatLabel", "def", Bool(TRUE)),
         FillStep("a", "disabled", "or", Bool(FALSE)),
         FillStep("a", "icon", "or", Str("")),
         FillStep("a", "tooltip", "or", Str("")),
         FillStep("a", "tooltipPosition", "or", Str("top")),
         FillStep("a", "tooltipEvent", "or", Str("hover")),
         FillStep("a", "autoClear", "or", Bool(FALSE)),
         FillStep("a", "variant", "or", Str("outlined")),
         FillStep("a", "tooltipOptions", "tooltipOptions", Undef),
         FillStep("v", "minLength", "or", Undef),
         FillStep("v", "maxLength", "or", Undef),
         FillStep("v", "regex", "or", Str("")),
         FillStep("v", "apiUrl", "or", Str(""))>>
    [] type \in {"input_mask"} ->
       <<FillStep("a", "placeholder", "or", Str("Enter text...")),
         FillStep("a", "mask", "or", Str("999-999-9999")),
         FillStep("a", "slotChar", "or", Str("_")),
         FillStep("a", "helpText", "or", Str("")),
         FillStep("a", "floatLabel", "def", Bool(TRUE)),
         FillStep("a", "disabled", "or", Bool(FALSE)),
         FillStep("a", "icon", "or", Str("")),
         FillStep("a", "autoClear", "or", Bool(FALSE)),
         FillStep("a", "variant", "or", Str("outlined")),
         FillStep("a", "invalid", "or", Bool(FALSE)),
         FillStep("v", "required", "or", Bool(FALSE)),
         FillStep("v", "mask", "orAttrMask", Undef),
         FillStep("v", "regex", "or", Str("")),
         FillStep("v", "unmask", "def", Bool(FALSE))>>
    [] type \in {"rich_text_blocks", "rich_text_markdown"} ->
       <<FillStep("a", "rows", "or", Num(10)),
         FillStep("a", "cols", "or", Num(80)),
         FillStep("a", "autoResize", "def", Bool(TRUE)),
         FillStep("a", "placeholder", "or", Str("Enter rich text..."))>>
    [] type \in {"number"} ->
       <<FillStep("a", "placeholder", "or", Str("Enter number...")),
         FillStep("a", "helpText", "or", Str("")),
         FillStep("a", "mode", "or", Str("decimal")),
         FillStep("a", "locale", "or", Str("en-US")),
         FillStep("a", "suffix", "or", Str("")),
         FillStep("a", "prefix", "or", Str("")),
         FillStep("a", "showButtons", "or", Bool(FALSE)),
         FillStep("a", "currency", "or", Str("USD")),
         FillStep("a", "step", "or", Num(1)),
         FillStep("a", "min", "or", Undef),
         FillStep("a", "max", "or", Undef),
         FillStep("a", "minFractionDigits", "or", Num(0)),
         FillStep("a", "maxFractionDigits", "or", Num(2)),
         FillStep("a", "incrementButtonIcon", "or", Str("plus")),
         FillStep("a", "decrementButtonIcon", "or", Str("minus")),
         FillStep("a", "decrementButtonClassName", "or", Str("")),
         FillStep("a", "incrementButtonClassName", "or", Str("")),
         FillStep("a", "buttonLayout", "or", Str("stacked")),
         FillStep("a", "autoClear", "or", Bool(FALSE)),
         FillStep("a", "icon", "or", Str("")),
         FillStep("a", "floatLabel", "def", Bool(TRUE)),
         FillStep("a", "variant", "or", Str("outlined")),
         FillStep("a", "invalid", "or", Bool(FALSE)),
         FillStep("a", "disabled", "or", Bool(FALSE)),
         FillStep("a", "useGrouping", "def", Bool(TRUE)),
         FillStep("v", "required", "or", Bool(FALSE)),
         FillStep("v", "minValue", "or", Undef),
         FillStep("v", "maxValue", "or", Undef),
         FillStep("v", "minFractionDigits", "or", Undef),
         FillStep("v", "maxFractionDigits", "or", Undef)>>
    [] type \in {"date"} ->
       <<FillStep("a", "dateFormat", "or", Str("mm/dd/yy")),
         FillStep("a", "locale", "or", Str("en-US")),
         FillStep("a", "showIcon", "def", Bool(TRUE)),
         FillStep("a", "minDate", "or", Str("")),
         FillStep("a", "maxDate", "or", Str("")),
         FillStep("a", "readOnlyInput", "or", Bool(FALSE)),
         FillStep("a", "selectionMode", "or", Str("single")),
         FillStep("a", "hideOnRangeSelection", "or", Bool(FALSE)),
         FillStep("a", "showButtonBar", "def", Bool(TRUE)),
         FillStep("a", "view", "or", Str("month")),
         FillStep("a", "numberOfMonths", "or", Num(1)),
         FillStep("a", "showTime", "or", Bool(FALSE)),
         FillStep("a", "hourFormat", "or", Str("24")),
         FillStep("a", "timeOnly", "or", Bool(FALSE)),
         FillStep("a", "variant", "or", Str("outlined")),
         FillStep("a", "icon", "or", Str("")),
         FillStep("a", "floatLabel", "def", Bool(TRUE)),
         FillStep("a", "invalid", "or", Bool(FALSE)),
         FillStep("a", "disabled", "or", Bool(FALSE)),
         FillStep("a", "inline", "or", Bool(FALSE)),
         FillStep("a", "showWeek", "or", Bool(FALSE)),
         FillStep("f", "dependOn", "or", Str("")),
         FillStep("f", "uniqueId", "or", Str("")),
         FillStep("f", "displayName", "orName", Undef),
         FillStep("f", "isVisible", "def", Bool(TRUE))>>
    [] type \in {"json"} ->
       <<FillStep("a", "rows", "or", Num(10)),
         FillStep("a", "autoResize", "def", Bool(TRUE))>>
    [] type \in {"email"} ->
       <<FillStep("a", "placeholder", "or", Str("Enter email...")),
         FillStep("a", "keyfilter", "or", Str("email"))>>
    [] type \in {"password"} ->
       <<FillStep("a", "promptLabel", "or", Str("Enter a password")),
         FillStep("a", "icon", "or", Str("")),
         FillStep("a", "variant", "or", Str("outlined")),
         FillStep("a", "weakLabel", "or", Str("Weak")),
         FillStep("a", "mediumLabel", "or", Str("Medium")),
         FillStep("a", "strongLabel", "or", Str("Strong")),
         FillStep("a", "feedback", "def", Bool(TRUE)),
         FillStep("a", "toggleMask", "def", Bool(TRUE)),
         FillStep("a", "floatLabel", "def", Bool(TRUE)),
         FillStep("a", "invalid", "or", Bool(FALSE)),
         FillStep("a", "disabled", "or", Bool(FALSE)),
         FillStep("f", "dependOn", "or", Str("")),
         FillStep("f", "uniqueId", "or", Str("")),
         FillStep("f", "displayName", "orName", Undef),
         FillStep("f", "isVisible", "def", Bool(TRUE)),
         FillStep("v", "required", "or", Bool(FALSE)),
         FillStep("v", "minLength", "or", Undef),
         FillStep("v", "maxLength", "or", Undef),
         FillStep("v", "regex", "or", Str(""))>>
    [] type \in {"enumeration"} ->
       <<FillStep("a", "dropdown", "def", Bool(TRUE)),
         FillStep("a", "multiple", "or", Bool(FALSE)),
         FillStep("a", "filter", "def", Bool(TRUE)),
         FillStep("a", "showClear", "def", Bool(TRUE))>>
    [] type \in {"media"} ->
       <<FillStep("a", "mode", "or", Str("basic")),
         FillStep("a", "accept", "or", Str("image/*")),
         FillStep("a", "maxFileSize", "or", Num(10000000)),
         FillStep("a", "auto", "def", Bool(TRUE)),
         FillStep("a", "chooseLabel", "or", Str("Choose"))>>
    [] type \in {"relation"} ->
       <<FillStep("a", "dropdown", "def", Bool(TRUE)),
         FillStep("a", "filter", "def", Bool(TRUE))>>
    [] type \in {"autocomplete"} ->
       <<FillStep("a", "placeholder", "or", Str("Start typing...")),
         FillStep("a", "icon", "or", Str("")),
         FillStep("a", "variant", "or", Str("outlined")),
         FillStep("a", "dropdown", "def", Bool(TRUE)),
         FillStep("a", "object", "or", Bool(FALSE)),
         FillStep("a", "group", "or", Bool(FALSE)),
         FillStep("a", "forceSelection", "or", Bool(FALSE)),
         FillStep("a", "multiple", "or", Bool(FALSE)),
         FillStep("a", "floatLabel", "def", Bool(TRUE)),
         FillStep("a", "invalid", "or", Bool(FALSE)),
         FillStep("a", "disabled", "or", Bool(FALSE)),
         FillStep("f", "dependOn", "or", Str("")),
         FillStep("f", "uniqueId", "or", Str("")),
         FillStep("f", "displayName", "orName", Undef),
         FillStep("f", "isVisible", "def", Bool(TRUE))>>
    [] type \in {"cascade_select"} ->
       <<FillStep("a", "placeholder", "or", Str("Select a value...")),
         FillStep("a", "variant", "or", Str("outlined")),
         FillStep("a", "optionLabel", "or", Str("label")),
         FillStep("a", "optionValue", "or", Str("value")),
         FillStep("a", "optionGroupLabel", "or", Str("label")),
         FillStep("a", "optionGroupChildren", "or", Str("items")),
         FillStep("a", "options", "or", EmptyArray),
         FillStep("a", "floatLabel", "def", Bool(TRUE)),
         FillStep("a", "invalid", "or", Bool(FALSE)),
         FillStep("a", "disabled", "or", Bool(FALSE)),
         FillStep("f", "dependOn", "or", Str("")),
         FillStep("f", "uniqueId", "or", Str("")),
         FillStep("f", "displayName", "orName", Undef),
         FillStep("f", "isVisible", "def", Bool(TRUE))>>
    [] type \in {"dropdown"} ->
       <<FillStep("a", "placeholder", "or", Str("Select an option...")),
         FillStep("a", "variant", "or", Str("outlined")),
         FillStep("a", "options", "or", EmptyArray),
         FillStep("a", "optionLabel", "or", Str("text")),
         FillStep("a", "optionValue", "or", Str("value")),
         FillStep("a", "optionGroupLabel", "or", Str("label")),
         FillStep("a", "optionGroupChildren", "or", Str("items")),
         FillStep("a", "checkmark", "def", Bool(TRUE)),
         FillStep("a", "highlightOnSelect", "def", Bool(TRUE)),
         FillStep("a", "editable", "or", Bool(FALSE)),
         FillStep("a", "filter", "def", Bool(TRUE)),
         FillStep("a", "showClear", "or", Bool(FALSE)),
         FillStep("a", "loading", "or", Bool(FALSE)),
         FillStep("a", "floatLabel", "def", Bool(TRUE)),
         FillStep("a", "invalid", "or", Bool(FALSE)),
         FillStep("a", "disabled", "or", Bool(FALSE)),
         FillStep("a", "optionGroupTemplate", "or", Str("")),
         FillStep("a", "valueTemplate", "or", Str("")),
         FillStep("a", "itemTemplate", "or", Str("")),
         FillStep("a", "panelFooterTemplate", "or", Str("")),
         FillStep("f", "dependOn", "or", Str("")),
         FillStep("f", "uniqueId", "or", Str("")),
         FillStep("f", "displayName", "orName", Undef),
         FillStep("f", "isVisible", "def", Bool(TRUE)),
         FillStep("f", "getApiUrl", "or", Str(""))>>
    [] type \in {"input_textarea"} ->
       <<FillStep("a", "placeholder", "or", Str("Enter text...")),
         FillStep("a", "rows", "or", Num(5)),
         FillStep("a", "cols", "or", Undef),
         FillStep("a", "autoResize", "def", Bool(TRUE)),
         FillStep("a", "keyfilter", "or", Str("")),
         FillStep("a", "floatLabel", "def", Bool(TRUE)),
         FillStep("a", "variant", "or", Str("outlined")),
         FillStep("a", "disabled", "or", Bool(FALSE)),
         FillStep("a", "invalid", "or", Bool(FALSE)),
         FillStep("a", "helpText", "or", Str("")),
         FillStep("v", "required", "or", Bool(FALSE)),
         FillStep("v", "minLength", "or", Undef),
         FillStep("v", "maxLength", "or", Undef),
         FillStep("f", "dependOn", "or", Str("")),
         FillStep("f", "uniqueId", "or", Str("")),
         FillStep("f", "displayName", "orName", Undef),
         FillStep("f", "isVisible", "def", Bool(TRUE))>>
    [] type \in {"uid"} ->
       <<FillStep("a", "placeholder", "or", Str("Auto-generated UID")),
         FillStep("a", "disabled", "def", Bool(TRUE))>>
    [] OTHER -> <<>>

\* one assignment of the switch run on fieldData
ApplyFillStep(fieldData, step) ==
  LET a == fieldData.attributes IN
  CASE step.op = "tooltipOptions" ->
         [fieldData EXCEPT
            !.attributes["tooltipOptions"] =
               Or(@, Obj(Or(a["tooltipPosition"], Str("top")).s,
                         Or(a["tooltipEvent"], Str("hover")).s))]
    [] step.op = "orAttrMask" ->
         [fieldData EXCEPT !.validations["mask"] = Or(@, a["mask"])]
    [] step.op = "orName" ->
         [fieldData EXCEPT !.displayName = IF @ = <<>> THEN fieldData.name ELSE @]
    [] step.tg = "a" /\ step.op = "or" ->
         [fieldData EXCEPT !.attributes[step.key] = Or(@, step.dflt)]
    [] step.tg = "a" /\ step.op = "def" ->
         [fieldData EXCEPT !.attributes[step.key] = Defined(@, step.dflt)]
    [] step.tg = "v" /\ step.op = "or" ->
         [fieldData EXCEPT !.validations[step.key] = Or(@, step.dflt)]
    [] step.tg = "v" /\ step.op = "def" ->
         [fieldData EXCEPT !.validations[step.key] = Defined(@, step.dflt)]
    [] step.tg = "f" /\ step.op = "or" ->
         [fieldData EXCEPT ![step.key] = Or(@, step.dflt)]
    [] step.tg = "f" /\ step.op = "def" ->
         [fieldData EXCEPT ![step.key] = Defined(@, step.dflt)]

RECURSIVE ApplyFillSteps(_, _)
ApplyFillSteps(fieldData, steps) ==
  IF steps = <<>> THEN fieldData
  ELSE ApplyFillSteps(ApplyFillStep(fieldData, Head(steps)), Tail(steps))

Reverse(s) == [i \in DOMAIN s |-> s[Len(s) + 1 - i]]

\* the switch with its assignments run last to first
DefaultFillLastFirst(fieldData) ==
  ApplyFillSteps(fieldData, Reverse(FillSteps(fieldData.type)))

\* switch (data.type) of onSubmit: the default-fill
DefaultFill(fieldData) == ApplyFillSteps(fieldData, FillSteps(fieldData.type))

\* onSubmit up to the call of onSave: the Field built from the submitted data
\* and the prop field, then default-filled
OnSubmitField(data, field) == DefaultFill([data EXCEPT !.id = field.id])

(***************************************************************************)
(* FieldConfigDialog: the inputs of the dialog                             *)
(***************************************************************************)
\* an input of the dialog: the object and key its onChange writes, and the
\* values the handler can store there
Setter(tg, key, values) == [tg |-> tg, key |-> key, values |-> values]

\* a number the user types into a numeric input
TypedNumber == 5

MaxOptions == 1

\* e.target.value of a text input: empty or not
TextValues == {Str(""), Str("x")}

\* e.target.value.charAt(0)
CharValues == {Str(""), Str("#")}

\* checked of a switch or checkbox
BoolValues == {Bool(TRUE), Bool(FALSE)}

\* e.target.value ? parseInt(e.target.value) : undefined
NumOrUndef == {Undef, Num(0), Num(TypedNumber)}

\* parseInt(e.target.value) || undefined
NonZeroOrUndef == {Undef, Num(TypedNumber)}

\* parseInt(e.target.value) || d
NonZeroOr(d) == {Num(d), Num(TypedNumber)}

\* the options of a select element
Select(options) == {Str(o) : o \in options}

\* attributes.options after "Add Option" or the removal of an option
OptionLists == {Arr(len) : len \in 0..MaxOptions}

\* the value of the registered displayName input
DisplayNames == {<<>>, <<"L">>}

\* the inputs shown for every kind: the required switch, the private checkbox
\* and the registered inputs of the common properties
CommonSetters ==
  {Setter("v", "required", BoolValues),
   Setter("a", "disabled", BoolValues),
   Setter("f", "dependOn", TextValues),
   Setter("f", "displayName", DisplayNames)}

\* the inputs of the panel shown for fieldType, each with the values its
\* onChange can store
PanelSetters(fieldType) ==
  CASE fieldType = "text" ->
       {Setter("v", "regex", TextValues),
        Setter("a", "placeholder", TextValues),
        Setter("a", "helpText", TextValues),
        Setter("a", "keyfilter", Select({"", "int", "pint", "num", "pnum", "money", "hex", "alpha", "alphanum", "email"})),
        Setter("a", "variant", Select({"outlined", "filled"})),
        Setter("a", "icon", TextValues),
        Setter("a", "tooltip", TextValues),
        Setter("a", "tooltipPosition", Select({"top", "bottom", "left", "right"})),
        Setter("a", "tooltipEvent", Select({"hover", "focus"})),
        Setter("a", "floatLabel", BoolValues),
        Setter("a", "autoClear", BoolValues),
        Setter("v", "maxLength", NonZeroOrUndef),
        Setter("v", "minLength", NonZeroOrUndef),
        Setter("v", "apiUrl", TextValues)}
    [] fieldType = "input_mask" ->
       {Setter("a", "placeholder", TextValues),
        Setter("a", "helpText", TextValues),
        Setter("a", "mask", TextValues),
        Setter("a", "slotChar", CharValues),
        Setter("a", "keyfilter", Select({"", "int", "pint", "num", "pnum", "money", "hex", "alpha", "alphanum", "email"})),
        Setter("a", "variant", Select({"outlined", "filled"})),
        Setter("a", "icon", TextValues),
        Setter("a", "tooltip", TextValues),
        Setter("a", "tooltipPosition", Select({"top", "bottom", "left", "right"})),
        Setter("a", "tooltipEvent", Select({"hover", "focus"})),
        Setter("a", "floatLabel", BoolValues),
        Setter("a", "autoClear", BoolValues),
        Setter("v", "maxLength", NonZeroOrUndef),
        Setter("v", "minLength", NonZeroOrUndef),
        Setter("v", "regex", TextValues),
        Setter("v", "apiUrl", TextValues),
        Setter("v", "unmask", BoolValues)}
    [] fieldType = "number" ->
       {Setter("a", "mode", Select({"decimal", "currency"})),
        Setter("a", "placeholder", TextValues),
        Setter("a", "helpText", TextValues),
        Setter("a", "min", NumOrUndef),
        Setter("a", "max", NumOrUndef),
        Setter("a", "step", NumOrUndef),
        Setter("a", "minFractionDigits", NumOrUndef),
        Setter("a", "maxFractionDigits", NumOrUndef),
        Setter("a", "currency", TextValues),
        Setter("a", "locale", TextValues),
        Setter("a", "prefix", TextValues),
        Setter("a", "suffix", TextValues),
        Setter("a", "showButtons", BoolValues),
        Setter("a", "buttonLayout", Select({"stacked", "horizontal", "vertical"})),
        Setter("a", "incrementButtonIcon", TextValues),
        Setter("a", "decrementButtonIcon", TextValues),
        Setter("a", "incrementButtonClassName", TextValues),
        Setter("a", "decrementButtonClassName", TextValues),
        Setter("a", "variant", Select({"outlined", "filled"})),
        Setter("a", "icon", TextValues),
        Setter("a", "useGrouping", BoolValues),
        Setter("a", "floatLabel", BoolValues),
        Setter("a", "autoClear", BoolValues),
        Setter("v", "maxValue", NonZeroOrUndef),
        Setter("v", "minValue", NonZeroOrUndef),
        Setter("v", "minFractionDigits", NonZeroOrUndef),
        Setter("v", "maxFractionDigits", NonZeroOrUndef)}
    [] fieldType = "password" ->
       {Setter("a", "promptLabel", TextValues),
        Setter("a", "icon", TextValues),
        Setter("a", "weakLabel", TextValues),
        Setter("a", "mediumLabel", TextValues),
        Setter("a", "strongLabel", TextValues),
        Setter("a", "variant", Select({"outlined", "filled"})),
        Setter("a", "feedback", BoolValues),
        Setter("a", "toggleMask", BoolValues),
        Setter("a", "floatLabel", BoolValues),
        Setter("a", "invalid", BoolValues),
        Setter("a", "disabled", BoolValues),
        Setter("v", "maxLength", NonZeroOrUndef),
        Setter("v", "minLength", NonZeroOrUndef),
        Setter("v", "regex", TextValues),
        Setter("v", "apiUrl", TextValues)}
    [] fieldType = "date" ->
       {Setter("a", "dateFormat", TextValues),
        Setter("a", "locale", TextValues),
        Setter("a", "minDate", TextValues),
        Setter("a", "maxDate", TextValues),
        Setter("a", "selectionMode", Select({"single", "multiple", "range"})),
        Setter("a", "view", Select({"month", "year"})),
        Setter("a", "numberOfMonths", NonZeroOr(1)),
        Setter("a", "showTime", BoolValues),
        Setter("a", "hourFormat", Select({"12", "24"})),
        Setter("a", "variant", Select({"outlined", "filled"})),
        Setter("a", "icon", TextValues),
        Setter("a", "showIcon", BoolValues),
        Setter("a", "readOnlyInput", BoolValues),
        Setter("a", "hideOnRangeSelection", BoolValues),
        Setter("a", "showButtonBar", BoolValues),
        Setter("a", "timeOnly", BoolValues),
        Setter("a", "inline", BoolValues),
        Setter("a", "showWeek", BoolValues),
        Setter("a", "floatLabel", BoolValues),
        Setter("a", "invalid", BoolValues),
        Setter("a", "disabled", BoolValues)}
    [] fieldType = "cascade_select" ->
       {Setter("a", "placeholder", TextValues),
        Setter("a", "optionLabel", TextValues),
        Setter("a", "optionValue", TextValues),
        Setter("a", "optionGroupLabel", TextValues),
        Setter("a", "optionGroupChildren", TextValues),
        Setter("a", "variant", Select({"outlined", "filled"})),
        Setter("a", "floatLabel", BoolValues),
        Setter("a", "invalid", BoolValues),
        Setter("a", "disabled", BoolValues)}
    [] fieldType = "dropdown" ->
       {Setter("a", "placeholder", TextValues),
        Setter("f", "getApiUrl", TextValues),
        Setter("a", "options", OptionLists),
        Setter("a", "variant", Select({"outlined", "filled"})),
        Setter("a", "checkmark", BoolValues),
        Setter("a", "highlightOnSelect", BoolValues),
        Setter("a", "editable", BoolValues),
        Setter("a", "filter", BoolValues),
        Setter("a", "showClear", BoolValues),
        Setter("a", "loading", BoolValues),
        Setter("a", "floatLabel", BoolValues),
        Setter("a", "invalid", BoolValues),
        Setter("a", "disabled", BoolValues)}
    [] fieldType = "autocomplete" ->
       {Setter("a", "placeholder", TextValues),
        Setter("a", "icon", TextValues),
        Setter("a", "variant", Select({"outlined", "filled"})),
        Setter("a", "dropdown", BoolValues),
        Setter("a", "object", BoolValues),
        Setter("a", "group", BoolValues),
        Setter("a", "forceSelection", BoolValues),
        Setter("a", "multiple", BoolValues),
        Setter("a", "floatLabel", BoolValues),
        Setter("a", "invalid", BoolValues),
        Setter("a", "disabled", BoolValues)}
    [] fieldType = "media" ->
       {Setter("a", "accept", TextValues),
        Setter("a", "chooseLabel", TextValues),
        Setter("a", "maxFileSize", NonZeroOr(10000000)),
        Setter("a", "minFileSize", NonZeroOr(0)),
        Setter("a", "url", TextValues),
        Setter("a", "emptyTemplate", TextValues),
        Setter("a", "multiple", BoolValues),
        Setter("a", "auto", BoolValues),
        Setter("a", "customUpload", BoolValues),
        Setter("a", "disabled", BoolValues),
        Setter("a", "uploadHandler", TextValues)}
    [] fieldType = "input_textarea" ->
       {Setter("a", "placeholder", TextValues),
        Setter("a", "helpText", TextValues),
        Setter("a", "rows", NonZeroOr(5)),
        Setter("a", "cols", NonZeroOrUndef),
        Setter("a", "keyfilter", Select({"", "int", "pint", "num", "pnum", "alpha", "alphanum"})),
        Setter("a", "variant", Select({"outlined", "filled"})),
        Setter("a", "autoResize", BoolValues),
        Setter("a", "floatLabel", BoolValues),
        Setter("a", "invalid", BoolValues),
        Setter("a", "disabled", BoolValues),
        Setter("v", "minLength", NonZeroOrUndef),
        Setter("v", "maxLength", NonZeroOrUndef)}
    [] fieldType = "json" ->
       {Setter("a", "rows", NonZeroOr(10)),
        Setter("a", "autoResize", BoolValues)}
    [] fieldType = "email" ->
       {Setter("v", "maxLength", NonZeroOrUndef),
        Setter("v", "minLength", NonZeroOrUndef),
        Setter("v", "regex", TextValues),
        Setter("v", "apiUrl", TextValues)}
    [] OTHER -> {}

(***************************************************************************)
(* ContentTypeEdit and FieldConfigDialog: the handlers                     *)
(***************************************************************************)
MaxInputs == 1

MaxSaves == 1

Title == <<"T", "i", "t", "l", "e">>

\* what opening the dialog does to the form and to the history: the dialog
\* component mounts when selectedFieldType first becomes non-null and stays
\* mounted afterwards, and useForm reads its defaultValues only on mount
OpenDialog(field, fieldType) ==
  /\ form' = IF selectedFieldType = Null THEN FormDefaults(field, fieldType) ELSE form
  /\ saved' = NoField
  /\ sent' = <<>>
  /\ userSetA' = EmptyAttributes
  /\ userSetV' = EmptyValidations
  /\ apiIdEdited' = FALSE
  /\ UNCHANGED inputs

\* the "Add new field" buttons: setFieldTypeSelectorOpen(true)
OpenSelector ==
  /\ ~fieldConfigOpen /\ ~fieldTypeSelectorOpen
  /\ fieldTypeSelectorOpen' = TRUE
  /\ UNCHANGED <<selectedFieldType, fieldToEdit, fieldConfigOpen, storeVars, form, historyVars>>
  /\ UNCHANGED exceptDialog

\* FieldTypeSelector: onSelect(option.type); onClose(), with handleAddField
HandleAddField(fieldType) ==
  /\ fieldTypeSelectorOpen
  /\ selectedFieldType' = fieldType
  /\ fieldToEdit' = NoField
  /\ fieldConfigOpen' = TRUE
  /\ fieldTypeSelectorOpen' = FALSE
  /\ OpenDialog(NoField, fieldType)
  /\ UNCHANGED storeVars
  /\ UNCHANGED exceptDialog

\* the edit button of the i-th field of the list
HandleEditField(i) ==
  /\ ~fieldConfigOpen /\ ~fieldTypeSelectorOpen
  /\ i \in DOMAIN fields
  /\ fieldToEdit' = fields[i]
  /\ selectedFieldType' = fields[i].type
  /\ fieldConfigOpen' = TRUE
  /\ OpenDialog(fields[i], fields[i].type)
  /\ UNCHANGED <<fieldTypeSelectorOpen, storeVars>>
  /\ UNCHANGED exceptDialog

\* the name input's onChange
HandleNameChange(name) ==
  /\ fieldConfigOpen
  /\ form' = [form EXCEPT !.name = name,
                          !.apiId = IF fieldToEdit.apiId = <<>> THEN derive(name) ELSE @]
  /\ UNCHANGED <<pageVars, storeVars, historyVars>>
  /\ UNCHANGED exceptDialog

\* the registered API ID input: the user types apiId
ChangeApiId(apiId) ==
  /\ fieldConfigOpen
  /\ form' = [form EXCEPT !.apiId = apiId]
  /\ apiIdEdited' = TRUE
  /\ UNCHANGED <<pageVars, storeVars, saved, sent, userSetA, userSetV, inputs>>
  /\ UNCHANGED exceptDialog

\* attributes.tooltipOptions after the tooltip position or event select wrote
\* its key into it
TooltipOptionsAfter(attributes, key, val) ==
  LET old == IF Falsy(attributes["tooltipOptions"]) THEN Obj("", "")
             ELSE attributes["tooltipOptions"]
  IN  IF key = "tooltipPosition" THEN Obj(val.s, old.e) ELSE Obj(old.s, val.s)

\* the onChange of one input of the panels: it stores val under its key; the
\* required switch also sets the form's required, the mask input also sets
\* validations.mask, the tooltip selects also write tooltipOptions
SetInput(st, val) ==
  /\ fieldConfigOpen
  /\ inputs < MaxInputs
  /\ val \in st.values
  /\ form' =
       CASE st.tg = "f" -> [form EXCEPT ![st.key] = val]
         [] st.tg = "v" /\ st.key = "required" ->
              [form EXCEPT !.required = val, !.validations["required"] = val]
         [] st.tg = "v" /\ st.key # "required" ->
              [form EXCEPT !.validations[st.key] = val]
         [] st.tg = "a" /\ st.key = "mask" ->
              [form EXCEPT !.attributes["mask"] = val, !.validations["mask"] = val]
         [] st.tg = "a" /\ st.key \in {"tooltipPosition", "tooltipEvent"} ->
              [form EXCEPT !.attributes[st.key] = val,
                           !.attributes["tooltipOptions"] =
                              TooltipOptionsAfter(form.attributes, st.key, val)]
         [] OTHER -> [form EXCEPT !.attributes[st.key] = val]
  /\ userSetA' = IF st.tg = "a" THEN [userSetA EXCEPT ![st.key] = val] ELSE userSetA
  /\ userSetV' = IF st.tg = "v" \/ (st.tg = "a" /\ st.key = "mask")
                 THEN [userSetV EXCEPT ![st.key] = val] ELSE userSetV
  /\ inputs' = inputs + 1
  /\ UNCHANGED <<pageVars, storeVars, saved, sent, apiIdEdited>>
  /\ UNCHANGED exceptDialog

\* handleSaveField up to its await: the list is built from the fields of the
\* selected collection and handed to collectionsApi.update
HandleSaveField(field) ==
  LET updatedFields ==
        IF field.id # NoId
        THEN [i \in DOMAIN fields |-> IF fields[i].id = field.id THEN field ELSE fields[i]]
        ELSE Append(fields, [field EXCEPT !.id = TempId(now)])
  IN  /\ requests' = Append(requests, updatedFields)
      /\ sent' = updatedFields
      /\ now' = now + 1
      /\ UNCHANGED fields

\* the "Finish" button: form.handleSubmit(onSubmit) calls onSubmit with the
\* parsed data when the schema accepts the form's values and shows the errors
\* otherwise; onSubmit ends with onSave and onClose
Finish ==
  /\ fieldConfigOpen
  /\ now < MaxSaves
  /\ IF SchemaValid(form)
     THEN LET fieldData == OnSubmitField(SchemaParse(form), fieldToEdit)
          IN  /\ saved' = fieldData
              /\ HandleSaveField(fieldData)
     ELSE FALSE
  /\ fieldConfigOpen' = FALSE
  /\ UNCHANGED <<selectedFieldType, fieldToEdit, fieldTypeSelectorOpen, form>>
  /\ UNCHANGED <<userSetA, userSetV, apiIdEdited, inputs>>
  /\ UNCHANGED exceptDialog

\* the "Add another field" button: onSubmit(form.getValues()), then
\* onAddAnother; fieldData.attributes and fieldData.validations are the
\* form's own objects, so the default-fill writes into the form
AddAnother ==
  /\ fieldConfigOpen
  /\ now < MaxSaves
  /\ LET fieldData == OnSubmitField(form, fieldToEdit)
     IN  /\ saved' = fieldData
         /\ HandleSaveField(fieldData)
         /\ form' = [form EXCEPT !.attributes = fieldData.attributes,
                                 !.validations = fieldData.validations]
  /\ fieldConfigOpen' = FALSE
  /\ fieldTypeSelectorOpen' = TRUE
  /\ UNCHANGED <<selectedFieldType, fieldToEdit>>
  /\ UNCHANGED <<userSetA, userSetV, apiIdEdited, inputs>>
  /\ UNCHANGED exceptDialog

\* the "Cancel" button: onClose
Cancel ==
  /\ fieldConfigOpen
  /\ fieldConfigOpen' = FALSE
  /\ UNCHANGED <<selectedFieldType, fieldToEdit, fieldTypeSelectorOpen>>
  /\ UNCHANGED <<storeVars, form, historyVars>>
  /\ UNCHANGED exceptDialog

RemoveAt(s, i) == SubSeq(s, 1, i - 1) \o SubSeq(s, i + 1, Len(s))

\* handleSaveField after its await, the update call having succeeded:
\* updateCollection(selectedCollection.id, { fields: updatedFields })
UpdateSucceeds ==
  /\ \E i \in DOMAIN requests :
       /\ fields' = requests[i]
       /\ requests' = RemoveAt(requests, i)
  /\ UNCHANGED <<pageVars, now, form, historyVars>>
  /\ UNCHANGED exceptDialog

\* handleSaveField's catch: a toast, the store is not touched
UpdateFails ==
  /\ \E i \in DOMAIN requests : requests' = RemoveAt(requests, i)
  /\ UNCHANGED <<pageVars, fields, now, form, historyVars>>
  /\ UNCHANGED exceptDialog

\* what the deletion of a field leaves alone: everything but the field list
\* of the store and the deletion dialog
exceptDelete ==
  <<maskVars, renderVars, collVars, deriveVars, pureVars, sessionVars,
    pageVars, requests, now, form, historyVars, laterVars>>

MaxDeletes == 1

\* the bin button of a field row: confirmDeleteField(field.id)
ConfirmDeleteField(i) ==
  /\ i \in DOMAIN fields
  /\ ~fieldConfigOpen /\ ~fieldTypeSelectorOpen /\ ~deleteFieldDialogOpen
  /\ fieldToDelete' = fields[i].id
  /\ deleteFieldDialogOpen' = TRUE
  /\ UNCHANGED <<fields, deleteRequests>>
  /\ UNCHANGED exceptDelete

\* the "Cancel" button of the deletion dialog
CancelDeleteField ==
  /\ deleteFieldDialogOpen
  /\ deleteFieldDialogOpen' = FALSE
  /\ UNCHANGED <<fields, fieldToDelete, deleteRequests>>
  /\ UNCHANGED exceptDelete

\* the "Delete" button: handleDeleteField up to its await
HandleDeleteField ==
  /\ deleteFieldDialogOpen
  /\ fieldToDelete # NoId
  /\ Len(deleteRequests) < MaxDeletes
  /\ deleteRequests' = Append(deleteRequests, SelectSeq(fields, LAMBDA f : f.id # fieldToDelete))
  /\ UNCHANGED <<fields, fieldToDelete, deleteFieldDialogOpen>>
  /\ UNCHANGED exceptDelete

\* handleDeleteField after its await, the update call having succeeded:
\* updateCollection, then the finally block
DeleteSucceeds ==
  /\ \E i \in DOMAIN deleteRequests :
       /\ fields' = deleteRequests[i]
       /\ deleteRequests' = RemoveAt(deleteRequests, i)
  /\ deleteFieldDialogOpen' = FALSE
  /\ fieldToDelete' = NoId
  /\ UNCHANGED exceptDelete

\* handleDeleteField's catch, then the finally block
DeleteFails ==
  /\ \E i \in DOMAIN deleteRequests : deleteRequests' = RemoveAt(deleteRequests, i)
  /\ deleteFieldDialogOpen' = FALSE
  /\ fieldToDelete' = NoId
  /\ UNCHANGED fields
  /\ UNCHANGED exceptDelete

(***************************************************************************)
(* Specifications of the dialog                                            *)
(***************************************************************************)
NUMBER == "number"

BOOLEAN_KIND == "boolean"

\* a field of the collection as an earlier use of the dialog left it: a new
\* field of the kind, named "ab", saved with no other input, to which the
\* backend gave an id
StoredField(type) ==
  [OnSubmitField([FormDefaults(NoField, type) EXCEPT !.name = <<"a", "b">>,
                                                      !.apiId = <<"a", "b">>], NoField)
     EXCEPT !.id = BackendId(1)]

OthersIdle == MaskIdle /\ RenderIdle /\ CollIdle /\ DeriveIdle /\ RestIdle

\* one use of the dialog on a freshly loaded page: a new field of any kind
\* added to the empty list, or the stored field of any kind edited
FillInit ==
  /\ OthersIdle
  /\ PageIdle
  /\ fields \in {<<>>} \cup {<<StoredField(type)>> : type \in FieldTypeEnum}

\* the name is not changed and the update call stays in flight: a new field
\* has the empty name and can be saved by "Add another field" only, the
\* stored field has a valid name and can be saved by either button
FillNext ==
  \/ selectedFieldType = Null /\ OpenSelector
  \/ selectedFieldType = Null /\ fields = <<>> /\ \E type \in FieldTypeEnum : HandleAddField(type)
  \/ selectedFieldType = Null /\ HandleEditField(1)
  \/ \E st \in CommonSetters \cup PanelSetters(selectedFieldType) :
       \E val \in st.values : SetInput(st, val)
  \/ Finish
  \/ AddAnother

SpecFill == FillInit /\ [][FillNext]_vars

\* a page session: fields are added, edited and saved one after the other
\* through the one dialog, the update calls answer in any order
DialogKinds == {TEXT, BOOLEAN_KIND}

NameInputs == {<<"a", "b">>, Title}

ApiIdInputs == {<<"z", "z">>}

RequiredSwitch == Setter("v", "required", BoolValues)

DialogInit ==
  /\ OthersIdle
  /\ PageIdle
  /\ fields \in {<<>>, <<StoredField(TEXT)>>}

DialogNext ==
  \/ OpenSelector
  \/ \E type \in DialogKinds : HandleAddField(type)
  \/ \E i \in 1..(MaxSaves + 1) : HandleEditField(i)
  \/ \E name \in NameInputs : HandleNameChange(name)
  \/ \E apiId \in ApiIdInputs : ChangeApiId(apiId)
  \/ \E checked \in BoolValues : SetInput(RequiredSwitch, checked)
  \/ Finish
  \/ AddAnother
  \/ Cancel
  \/ UpdateSucceeds
  \/ UpdateFails

SpecDialog == DialogInit /\ [][DialogNext]_vars

\* the field list of the collection under saves of the three sorts: TEXT
\* fields are added and edited through "Finish", fields are deleted, the
\* update calls answer in any order
\* the deletion dialog is modal: while it is open the page under it takes no
\* click
AddFieldButton == ~deleteFieldDialogOpen /\ OpenSelector

EditFieldButton(i) == ~deleteFieldDialogOpen /\ HandleEditField(i)

ListNext ==
  \/ AddFieldButton
  \/ HandleAddField(TEXT)
  \/ \E i \in 1..(MaxSaves + 1) : EditFieldButton(i)
  \/ \E name \in NameInputs : HandleNameChange(name)
  \/ Finish
  \/ UpdateSucceeds
  \/ UpdateFails
  \/ \E i \in 1..(MaxSaves + 1) : ConfirmDeleteField(i)
  \/ CancelDeleteField
  \/ HandleDeleteField
  \/ DeleteSucceeds
  \/ DeleteFails

SpecList == DialogInit /\ [][ListNext]_vars

(***************************************************************************)
(* The derivation of an API ID, as a function of the name                  *)
(***************************************************************************)
MaxNameLen == 3

NameAlphabet == {"a", "B", "1", "_", "!", " ", "\t"}

MyField == <<"M", "y", " ", "F", "i", "e", "l", "d", "!">>

DeriveNames == StringsUpTo(NameAlphabet, MaxNameLen) \cup {MyField}

DeriveInit ==
  /\ MaskIdle /\ RenderIdle /\ DialogIdle /\ CollIdle /\ RestIdle
  /\ dvName \in DeriveNames
  /\ dvApiId = <<>>
  /\ dvPc = "name"

\* the derivation of handleNameChange applied to the name
DeriveApiId ==
  /\ dvPc = "name"
  /\ dvApiId' = derive(dvName)
  /\ dvPc' = "derived"
  /\ UNCHANGED dvName
  /\ UNCHANGED exceptDerive

SpecDerive == DeriveInit /\ [][DeriveApiId]_vars

(***************************************************************************)
(* The collection creation forms: CollectionTypeDialog, ContentTypeCreate  *)
(***************************************************************************)
Restaurant == <<"R", "e", "s", "t", "a", "u", "r", "a", "n", "t">>

CollNames == {<<>>, <<"a">>, <<"M", "y", " ", "B">>, Restaurant}

CollApiIds == {<<>>, <<"x">>}

\* an API ID input after handleNameChange: form.setValue(..., derived) when
\* formState.dirtyFields does not list the input
AutoFillWhenEmpty(dirty, old, derived) == IF old = <<>> THEN derived ELSE old

AutoFill(dirty, old, derived) == IF ~dirty THEN derived ELSE old

\* the name input's onChange, the same in both components; setValue leaves
\* dirtyFields as it is
CollHandleNameChange(name) ==
  /\ cfName' = name
  /\ cfSingular' = AutoFill(cfDirtySingular, cfSingular, derive(name))
  /\ cfPlural' = AutoFill(cfDirtyPlural, cfPlural, derive(name) \o <<"s">>)
  /\ cfLast' = "name"
  /\ UNCHANGED <<cfForm, cfDirtySingular, cfDirtyPlural, cfEdited>>
  /\ UNCHANGED exceptColl

\* the user types into the singular API ID input: the input is dirty while
\* its value differs from the default ''
ChangeApiIdSingular(apiId) ==
  /\ cfSingular' = apiId
  /\ cfDirtySingular' = (apiId # <<>>)
  /\ cfEdited' = cfEdited \cup {"apiIdSingular"}
  /\ cfLast' = "apiIdSingular"
  /\ UNCHANGED <<cfForm, cfName, cfPlural, cfDirtyPlural>>
  /\ UNCHANGED exceptColl

ChangeApiIdPlural(apiId) ==
  /\ cfPlural' = apiId
  /\ cfDirtyPlural' = (apiId # <<>>)
  /\ cfEdited' = cfEdited \cup {"apiIdPlural"}
  /\ cfLast' = "apiIdPlural"
  /\ UNCHANGED <<cfForm, cfName, cfSingular, cfDirtySingular>>
  /\ UNCHANGED exceptColl

CollInit ==
  /\ MaskIdle /\ RenderIdle /\ DialogIdle /\ DeriveIdle /\ RestIdle
  /\ cfForm \in {"CollectionTypeDialog", "ContentTypeCreate"}
  /\ cfName = <<>>
  /\ cfSingular = <<>>
  /\ cfPlural = <<>>
  /\ cfDirtySingular = FALSE
  /\ cfDirtyPlural = FALSE
  /\ cfEdited = {}
  /\ cfLast = "none"

CollNext ==
  \/ \E name \in CollNames : CollHandleNameChange(name)
  \/ \E apiId \in CollApiIds : ChangeApiIdSingular(apiId)
  \/ \E apiId \in CollApiIds : ChangeApiIdPlural(apiId)

SpecColl == CollInit /\ [][CollNext]_vars

(***************************************************************************)
(* renderField: the widgets with a blur handler (TEXT, NUMBER, INPUT_MASK, *)
(* INPUT_TEXTAREA)                                                         *)
(***************************************************************************)
DigitSeq == <<"0", "1", "2", "3", "4", "5", "6", "7", "8", "9">>

\* String(n) for a non-negative whole number
RECURSIVE NumberToString(_)
NumberToString(n) ==
  IF n < 10 THEN <<DigitSeq[n + 1]>>
  ELSE NumberToString(n \div 10) \o <<DigitSeq[(n % 10) + 1]>>

DigitValue(c) == CHOOSE d \in 0..9 : DigitSeq[d + 1] = c

\* parseFloat(text) for a text of decimal digits
RECURSIVE ParseFloat(_)
ParseFloat(text) ==
  IF Len(text) = 1 THEN DigitValue(text[1])
  ELSE 10 * ParseFloat(SubSeq(text, 1, Len(text) - 1)) + DigitValue(text[Len(text)])

\* value || '' of the number input: null and 0 are shown as the empty text
NumberDisplay(value) == IF value = <<"0">> THEN <<>> ELSE value

\* the texts the user leaves in the number input (whole numbers)
NumberTexts == {<<>>, <<"0">>, <<"3">>, <<"7">>, <<"1", "2">>}

\* a Field as the blur handlers read it: RenderField with attributes.min and
\* attributes.max (Undef when unset) and the validations of all four kinds
\* (Undef, FALSE, 0, "" and <<>> stand for unset)
BlurField(type, mask, slotChar, min, max, validations) ==
  [type |-> type, keyfilter |-> "", mask |-> mask, slotChar |-> slotChar,
   invalid |-> FALSE, min |-> min, max |-> max, validations |-> validations]

OnlyRequired ==
  [required |-> TRUE, minLength |-> 0, maxLength |-> 0, regex |-> "", mask |-> <<>>,
   unmask |-> FALSE, minValue |-> Undef, maxValue |-> Undef,
   minFractionDigits |-> Undef, maxFractionDigits |-> Undef]

ShortMask == <<"9", "-", "9">>

\* the validations of a field of each kind
KindValidations(type) ==
  CASE type = TEXT ->
         {[OnlyRequired EXCEPT !.required = r, !.minLength = n, !.regex = x] :
            r \in BOOLEAN, n \in {0, 2}, x \in {"", "^[0-9]+$"}}
    [] type = INPUT_TEXTAREA ->
         {[OnlyRequired EXCEPT !.required = r, !.minLength = n, !.maxLength = x] :
            r \in BOOLEAN, n \in {0, 2}, x \in {0, 3}}
    [] type = NUMBER ->
         {[OnlyRequired EXCEPT !.required = r, !.minValue = lo, !.maxValue = hi,
                               !.minFractionDigits = f] :
            r \in BOOLEAN, lo \in {Undef, Num(3)}, hi \in {Undef, Num(7)},
            f \in {Undef, Num(0), Num(1)}}
    [] OTHER ->
         {[OnlyRequired EXCEPT !.required = r, !.mask = m, !.unmask = u, !.regex = x] :
            r \in BOOLEAN, m \in {<<>>, ShortMask}, u \in BOOLEAN, x \in {"", "^[0-9]+$"}}

\* NUMBER onChange: parse the text, clamp it to attributes.min/max, onChange
NumberChange ==
  /\ rField.type = NUMBER
  /\ \E val \in NumberTexts :
       LET parsedValue == IF val # <<>> THEN ParseFloat(val) ELSE 0
           atLeastMin == IF rField.min # Undef /\ parsedValue < rField.min.n
                         THEN rField.min.n ELSE parsedValue
           clamped == IF rField.max # Undef /\ atLeastMin > rField.max.n
                      THEN rField.max.n ELSE atLeastMin
       IN  HandleFieldChange(IF val # <<>> THEN NumberToString(clamped) ELSE <<>>, TRUE)
  /\ UNCHANGED <<rField, rTyped>>
  /\ UNCHANGED exceptRender

\* NUMBER onBlur: isValid, text being the content of the input
NumberBlurValid(validations, text) ==
  \/ text = <<>>
  \/ LET value == ParseFloat(text)
         decimalPart == <<>>
     IN  /\ ~(validations.minValue # Undef /\ value < validations.minValue.n)
         /\ ~(validations.maxValue # Undef /\ value > validations.maxValue.n)
         /\ ~(/\ validations.minFractionDigits # Undef
              /\ Len(decimalPart) < validations.minFractionDigits.n)
         /\ ~(/\ validations.maxFractionDigits # Undef
              /\ Len(decimalPart) > validations.maxFractionDigits.n)

\* NUMBER: onBlur; newAttributes is built and dropped
NumberBlur ==
  /\ rField.type = NUMBER
  /\ rLast' = [handler |-> "blur", called |-> FALSE, matched |-> TRUE,
               isValid |-> NumberBlurValid(rField.validations, NumberDisplay(rValue))]
  /\ UNCHANGED <<rField, rValue, rTyped>>
  /\ UNCHANGED exceptRender

\* the mask slots of validations.mask and those of them the value fills
RequiredChars(mask) == {i \in DOMAIN mask : IsSlot(mask[i])}

FilledChars(mask, value, slotChar) ==
  {i \in RequiredChars(mask) : i <= Len(value) /\ value[i] # slotChar}

\* INPUT_MASK onBlur: isValid
MaskBlurValid(field, value) ==
  LET validations == field.validations
      valueToValidate == IF validations.unmask THEN unmaskValue(value, field.mask) ELSE value
  IN  /\ ~(validations.required /\ valueToValidate = <<>>)
      /\ ~(/\ validations.mask # <<>> /\ value # <<>>
           /\ Cardinality(FilledChars(validations.mask, value, field.slotChar))
                < Cardinality(RequiredChars(validations.mask)))
      /\ ~(/\ validations.regex # "" /\ valueToValidate # <<>>
           /\ RegexCompiles(validations.regex)
           /\ ~RegexTest(validations.regex, valueToValidate))

\* INPUT_MASK: onBlur; newAttributes is built and dropped
MaskBlur ==
  /\ rField.type = INPUT_MASK
  /\ rLast' = [handler |-> "blur", called |-> FALSE, matched |-> TRUE,
               isValid |-> MaskBlurValid(rField, rValue)]
  /\ UNCHANGED <<rField, rValue, rTyped>>
  /\ UNCHANGED exceptRender

BlurKinds == {TEXT, NUMBER, INPUT_MASK, INPUT_TEXTAREA}

KindsInit ==
  /\ MaskIdle
  /\ DialogIdle
  /\ CollIdle
  /\ DeriveIdle
  /\ RestIdle
  /\ \E type \in BlurKinds, validations \in UNION {KindValidations(k) : k \in BlurKinds} :
       /\ validations \in KindValidations(type)
       /\ rField = BlurField(type, IF type = INPUT_MASK THEN ShortMask ELSE <<>>,
                             IF type = INPUT_MASK THEN "_" ELSE "", Undef,
                             IF type = NUMBER THEN Num(9) ELSE Undef, validations)
  /\ rValue = <<>>
  /\ rTyped = <<>>
  /\ rLast = NoHandler

KindsNext ==
  \/ TextChange
  \/ TextareaChange
  \/ NumberChange
  \/ MaskTypeDigit
  \/ TextBlur
  \/ TextareaBlur
  \/ NumberBlur
  \/ MaskBlur

SpecKinds == KindsInit /\ [][KindsNext]_vars

(***************************************************************************)
(* renderField: getPasswordStrength                                        *)
(***************************************************************************)
\* regex.test(password) for a character class
HasMatch(password, class) == \E i \in DOMAIN password : password[i] \in class

\* the score without the test for a special character
PasswordScoreNoSpecial(password) ==
  (IF Len(password) >= 8 THEN 1 ELSE 0)
  + (IF Len(password) >= 12 THEN 1 ELSE 0)
  + (IF HasMatch(password, Upper) THEN 1 ELSE 0)
  + (IF HasMatch(password, Lower) THEN 1 ELSE 0)
  + (IF HasMatch(password, Digits) THEN 1 ELSE 0)

\* the score getPasswordStrength adds up
PasswordScore(password) ==
  (IF Len(password) >= 8 THEN 1 ELSE 0)
  + (IF Len(password) >= 12 THEN 1 ELSE 0)
  + (IF HasMatch(password, Upper) THEN 1 ELSE 0)
  + (IF HasMatch(password, Lower) THEN 1 ELSE 0)
  + (IF HasMatch(password, Digits) THEN 1 ELSE 0)
  + (IF \E i \in DOMAIN password : password[i] \notin Upper \cup Lower \cup Digits
     THEN 1 ELSE 0)

getPasswordStrength(password) ==
  IF password = <<>> THEN "weak"
  ELSE IF PasswordScore(password) < 3 THEN "weak"
  ELSE IF PasswordScore(password) < 5 THEN "medium"
  ELSE "strong"

MaxPasswordBase == 3

PasswordAlphabet == {"A", "a", "1", "!"}

\* the lengths of the runs of one character that follow the first characters
PadLengths == {0, 5, 9}

Repeat(c, k) == [i \in 1..k |-> c]

PasswordAbc == <<"a", "b", "c">>

PasswordAbcdef12 == <<"A", "b", "c", "d", "e", "f", "1", "2">>

PasswordLong == <<"A", "b", "c", "d", "e", "f", "1", "2", "3", "!", "@", "#", "l", "o", "n", "g", "e", "n", "o", "u", "g", "h">>

Passwords ==
  {base \o Repeat(c, k) :
     base \in StringsUpTo(PasswordAlphabet, MaxPasswordBase), c \in PasswordAlphabet,
     k \in PadLengths}
  \cup {PasswordAbc, PasswordAbcdef12, PasswordLong}

PasswordInit ==
  /\ MaskIdle /\ RenderIdle /\ DialogIdle /\ CollIdle /\ DeriveIdle
  /\ DeleteIdle /\ MapIdle /\ ViewIdle /\ JsonIdle /\ SessionIdle /\ LaterIdle
  /\ pwPassword \in Passwords
  /\ pwStrength = "none"
  /\ pwPc = "password"

\* the strength indicator of the PASSWORD widget asks for the strength
ComputeStrength ==
  /\ pwPc = "password"
  /\ pwStrength' = getPasswordStrength(pwPassword)
  /\ pwPc' = "scored"
  /\ UNCHANGED pwPassword
  /\ UNCHANGED exceptPassword

SpecPassword == PasswordInit /\ [][ComputeStrength]_vars

(***************************************************************************)
(* The two content entry forms drawing one field: ContentForm through      *)
(* renderField, ContentEntryForm through its own renderField               *)
(***************************************************************************)
\* renderField of the field renderer: what it returns, by the case of its
\* switch; "null" is the return before the switch
RenderFieldOutput(field) ==
  IF field.isVisible = Bool(FALSE) THEN "null"
  ELSE CASE field.type = "input_mask" -> "masked Input"
         [] field.type = "text" -> "text Input"
         [] field.type \in {"rich_text_blocks", "rich_text_markdown"} -> "Textarea"
         [] field.type = "number" -> "number Input"
         [] field.type = "boolean" -> "Switch"
         [] field.type = "date" -> "Calendar"
         [] field.type = "json" -> "JSON Textarea"
         [] field.type = "email" -> "email Input"
         [] field.type = "password" -> "password Input"
         [] field.type = "autocomplete" -> "autocomplete Input"
         [] field.type = "cascade_select" -> "cascade select"
         [] field.type = "dropdown" -> "dropdown"
         [] field.type = "media" -> "upload"
         [] field.type = "input_textarea" -> "keyfilter Textarea"
         [] OTHER -> "default Input"

\* renderField of ContentEntryForm: the FormField or FormItem it returns
EntryFormOutput(field) ==
  CASE field.type = "text" -> "text Input"
    [] field.type \in {"rich_text_blocks", "rich_text_markdown"} -> "Textarea"
    [] field.type = "number" -> "number Input"
    [] field.type = "boolean" -> "Switch"
    [] field.type = "email" -> "email Input"
    [] field.type = "password" -> "password Input"
    [] field.type = "date" -> "Calendar"
    [] field.type = "enumeration" -> "Select"
    [] field.type = "json" -> "JSON Textarea"
    [] OTHER -> "not implemented yet"

ViewValues == {<<>>, <<"x">>}

ViewInit ==
  /\ MaskIdle /\ RenderIdle /\ DialogIdle /\ CollIdle /\ DeriveIdle
  /\ DeleteIdle /\ PasswordIdle /\ MapIdle /\ JsonIdle /\ SessionIdle /\ LaterIdle
  /\ vwForm \in {"ContentForm", "ContentEntryForm"}
  /\ \E type \in FieldTypeEnum, isVisible \in {Undef, Bool(TRUE), Bool(FALSE)} :
       vwField = [NoField EXCEPT !.type = type, !.isVisible = isVisible,
                                 !.name = <<"a", "b">>, !.apiId = <<"a", "b">>]
  /\ vwValue \in ViewValues
  /\ vwOutput = "none"

\* ContentForm: fieldGroups[tabName].map(field => renderField(field, value, onChange))
DrawInContentForm ==
  /\ vwForm = "ContentForm"
  /\ vwOutput = "none"
  /\ vwOutput' = RenderFieldOutput(vwField)
  /\ UNCHANGED <<vwForm, vwField, vwValue>>
  /\ UNCHANGED exceptView

\* ContentEntryForm: fields.map(renderField)
DrawInEntryForm ==
  /\ vwForm = "ContentEntryForm"
  /\ vwOutput = "none"
  /\ vwOutput' = EntryFormOutput(vwField)
  /\ UNCHANGED <<vwForm, vwField, vwValue>>
  /\ UNCHANGED exceptView

ViewNext == DrawInContentForm \/ DrawInEntryForm

SpecView == ViewInit /\ [][ViewNext]_vars

(***************************************************************************)
(* useFieldTypes: mapFieldTypeNameToEnum                                   *)
(***************************************************************************)
\* String.prototype.toUpperCase on one character
ToUpperChar(c) ==
  IF c \in Lower THEN UpperSeq[CHOOSE i \in DOMAIN LowerSeq : LowerSeq[i] = c] ELSE c

ToUpperCase(s) == [i \in DOMAIN s |-> ToUpperChar(s[i])]

\* replace(/-/g, '_')
ReplaceDashes(s) == [i \in DOMAIN s |-> IF s[i] = "-" THEN "_" ELSE s[i]]

\* replace(/_/g, '-'): the spelling of a name with dashes
WithDashes(s) == [i \in DOMAIN s |-> IF s[i] = "_" THEN "-" ELSE s[i]]

\* the members of the enum FieldTypeEnum in the order of their declaration:
\* the key and the value as written, and the value as a FieldKind
EnumEntries ==
  <<[key |-> <<"T", "E", "X", "T">>,
     value |-> <<"t", "e", "x", "t">>, kind |-> "text"],
    [key |-> <<"N", "U", "M", "B", "E", "R">>,
     value |-> <<"n", "u", "m", "b", "e", "r">>, kind |-> "number"],
    [key |-> <<"D", "A", "T", "E">>,
     value |-> <<"d", "a", "t", "e">>, kind |-> "date"],
    [key |-> <<"I", "M", "A", "G", "E">>,
     value |-> <<"i", "m", "a", "g", "e">>, kind |-> "image"],
    [key |-> <<"R", "I", "C", "H", "_", "T", "E", "X", "T">>,
     value |-> <<"r", "i", "c", "h", "_", "t", "e", "x", "t">>, kind |-> "rich_text"],
    [key |-> <<"M", "A", "S", "K">>,
     value |-> <<"m", "a", "s", "k">>, kind |-> "mask"],
    [key |-> <<"C", "A", "L", "E", "N", "D", "A", "R">>,
     value |-> <<"c", "a", "l", "e", "n", "d", "a", "r">>, kind |-> "calendar"],
    [key |-> <<"E", "D", "I", "T", "O", "R">>,
     value |-> <<"e", "d", "i", "t", "o", "r">>, kind |-> "editor"],
    [key |-> <<"P", "A", "S", "S", "W", "O", "R", "D">>,
     value |-> <<"p", "a", "s", "s", "w", "o", "r", "d">>, kind |-> "password"],
    [key |-> <<"A", "U", "T", "O", "C", "O", "M", "P", "L", "E", "T", "E">>,
     value |-> <<"a", "u", "t", "o", "c", "o", "m", "p", "l", "e", "t", "e">>, kind |-> "autocomplete"],
    [key |-> <<"C", "A", "S", "C", "A", "D", "E", "_", "S", "E", "L", "E", "C", "T">>,
     value |-> <<"c", "a", "s", "c", "a", "d", "e", "_", "s", "e", "l", "e", "c", "t">>, kind |-> "cascade_select"],
    [key |-> <<"D", "R", "O", "P", "D", "O", "W", "N">>,
     value |-> <<"d", "r", "o", "p", "d", "o", "w", "n">>, kind |-> "dropdown"],
    [key |-> <<"F", "I", "L", "E">>,
     value |-> <<"f", "i", "l", "e">>, kind |-> "file"],
    [key |-> <<"M", "U", "L", "T", "I", "_", "S", "T", "A", "T", "E", "_", "C", "H", "E", "C", "K", "B", "O", "X">>,
     value |-> <<"m", "u", "l", "t", "i", "_", "s", "t", "a", "t", "e", "_", "c", "h", "e", "c", "k", "b", "o", "x">>, kind |-> "multi_state_checkbox"],
    [key |-> <<"M", "U", "L", "T", "I", "_", "S", "E", "L", "E", "C", "T">>,
     value |-> <<"m", "u", "l", "t", "i", "_", "s", "e", "l", "e", "c", "t">>, kind |-> "multi_select"],
    [key |-> <<"M", "E", "N", "T", "I", "O", "N">>,
     value |-> <<"m", "e", "n", "t", "i", "o", "n">>, kind |-> "mention"],
    [key |-> <<"T", "E", "X", "T", "A", "R", "E", "A">>,
     value |-> <<"t", "e", "x", "t", "a", "r", "e", "a">>, kind |-> "textarea"],
    [key |-> <<"O", "T", "P">>,
     value |-> <<"o", "t", "p">>, kind |-> "otp"],
    [key |-> <<"R", "I", "C", "H", "_", "T", "E", "X", "T", "_", "B", "L", "O", "C", "K", "S">>,
     value |-> <<"r", "i", "c", "h", "_", "t", "e", "x", "t", "_", "b", "l", "o", "c", "k", "s">>, kind |-> "rich_text_blocks"],
    [key |-> <<"R", "I", "C", "H", "_", "T", "E", "X", "T", "_", "M", "A", "R", "K", "D", "O", "W", "N">>,
     value |-> <<"r", "i", "c", "h", "_", "t", "e", "x", "t", "_", "m", "a", "r", "k", "d", "o", "w", "n">>, kind |-> "rich_text_markdown"],
    [key |-> <<"B", "O", "O", "L", "E", "A", "N">>,
     value |-> <<"b", "o", "o", "l", "e", "a", "n">>, kind |-> "boolean"],
    [key |-> <<"J", "S", "O", "N">>,
     value |-> <<"j", "s", "o", "n">>, kind |-> "json"],
    [key |-> <<"E", "M", "A", "I", "L">>,
     value |-> <<"e", "m", "a", "i", "l">>, kind |-> "email"],
    [key |-> <<"M", "E", "D", "I", "A">>,
     value |-> <<"m", "e", "d", "i", "a">>, kind |-> "media"],
    [key |-> <<"E", "N", "U", "M", "E", "R", "A", "T", "I", "O", "N">>,
     value |-> <<"e", "n", "u", "m", "e", "r", "a", "t", "i", "o", "n">>, kind |-> "enumeration"],
    [key |-> <<"R", "E", "L", "A", "T", "I", "O", "N">>,
     value |-> <<"r", "e", "l", "a", "t", "i", "o", "n">>, kind |-> "relation"],
    [key |-> <<"U", "I", "D">>,
     value |-> <<"u", "i", "d">>, kind |-> "uid"],
    [key |-> <<"C", "O", "M", "P", "O", "N", "E", "N", "T">>,
     value |-> <<"c", "o", "m", "p", "o", "n", "e", "n", "t">>, kind |-> "component"],
    [key |-> <<"D", "Y", "N", "A", "M", "I", "C", "_", "Z", "O", "N", "E">>,
     value |-> <<"d", "y", "n", "a", "m", "i", "c", "_", "z", "o", "n", "e">>, kind |-> "dynamic_zone"],
    [key |-> <<"I", "N", "P", "U", "T", "_", "M", "A", "S", "K">>,
     value |-> <<"i", "n", "p", "u", "t", "_", "m", "a", "s", "k">>, kind |-> "input_mask"],
    [key |-> <<"I", "N", "P", "U", "T", "_", "T", "E", "X", "T", "A", "R", "E", "A">>,
     value |-> <<"i", "n", "p", "u", "t", "_", "t", "e", "x", "t", "a", "r", "e", "a">>, kind |-> "input_textarea"]>>

\* the value without a fallback: undefined when no key matches
mapFieldTypeNameNoDefault(name) ==
  IF \E i \in DOMAIN EnumEntries : EnumEntries[i].value = name
  THEN [kind |-> EnumEntries[CHOOSE i \in DOMAIN EnumEntries : EnumEntries[i].value = name].kind,
        warned |-> FALSE]
  ELSE LET enumKey == ReplaceDashes(ToUpperCase(name))
           matches == {i \in DOMAIN EnumEntries : EnumEntries[i].key = enumKey}
       IN  IF matches # {}
           THEN [kind |-> EnumEntries[CHOOSE i \in matches : \A j \in matches : i <= j].kind,
                 warned |-> FALSE]
           ELSE [kind |-> "undefined", warned |-> TRUE]

\* mapFieldTypeNameToEnum: Object.values(FieldTypeEnum).includes(name), then
\* the for-in loop over the keys, then the default with console.warn
mapFieldTypeNameToEnum(name) ==
  IF \E i \in DOMAIN EnumEntries : EnumEntries[i].value = name
  THEN [kind |-> EnumEntries[CHOOSE i \in DOMAIN EnumEntries : EnumEntries[i].value = name].kind,
        warned |-> FALSE]
  ELSE LET enumKey == ReplaceDashes(ToUpperCase(name))
           matches == {i \in DOMAIN EnumEntries : EnumEntries[i].key = enumKey}
       IN  IF matches # {}
           THEN [kind |-> EnumEntries[CHOOSE i \in matches : \A j \in matches : i <= j].kind,
                 warned |-> FALSE]
           ELSE [kind |-> "text", warned |-> TRUE]

\* names no member of the enum answers to
UnknownNames ==
  {<<>>,
   <<"f", "o", "o">>,
   <<"v", "a", "r", "c", "h", "a", "r">>,
   <<" ", "t", "e", "x", "t">>,
   <<"R", "i", "c", "h", " ", "T", "e", "x", "t">>,
   <<"r", "i", "c", "h", "t", "e", "x", "t">>,
   <<"T", "E", "X", "T", "_">>,
   <<"c", "o", "n", "s", "t", "r", "u", "c", "t", "o", "r">>,
   <<"i", "n", "p", "u", "t", " ", "m", "a", "s", "k">>,
   <<"N", "u", "m", "b", "e", "r", "1">>}

\* the fieldTypeName values the backend sends: every value and every key of
\* the enum, the values spelled with dashes and with a capital, unknown names
MapNames ==
  {EnumEntries[i].value : i \in DOMAIN EnumEntries}
  \cup {EnumEntries[i].key : i \in DOMAIN EnumEntries}
  \cup {WithDashes(EnumEntries[i].value) : i \in DOMAIN EnumEntries}
  \cup {[EnumEntries[i].value EXCEPT ![1] = ToUpperChar(@)] : i \in DOMAIN EnumEntries}
  \cup UnknownNames

MapInit ==
  /\ MaskIdle /\ RenderIdle /\ DialogIdle /\ CollIdle /\ DeriveIdle
  /\ DeleteIdle /\ PasswordIdle /\ ViewIdle /\ JsonIdle /\ SessionIdle /\ LaterIdle
  /\ mpName \in MapNames
  /\ mpKind = "none"
  /\ mpWarned = FALSE
  /\ mpPc = "name"

\* one call of mapFieldTypeNameToEnum
MapName ==
  /\ mpPc = "name"
  /\ mpKind' = mapFieldTypeNameToEnum(mpName).kind
  /\ mpWarned' = mapFieldTypeNameToEnum(mpName).warned
  /\ mpPc' = "mapped"
  /\ UNCHANGED mpName
  /\ UNCHANGED exceptMap

SpecMap == MapInit /\ [][MapName]_vars

(***************************************************************************)
(* The session: the axios interceptors, the auth store, useFieldTypes      *)
(***************************************************************************)
MaxCalls == 3

\* the arrays of BackendFieldType the backend answers with (id and
\* fieldTypeName of each entry)
ResponseLists ==
  {<<>>,
   <<[id |-> 1, fieldTypeName |-> <<"t", "e", "x", "t">>]>>,
   <<[id |-> 1, fieldTypeName |-> <<"n", "u", "m", "b", "e", "r">>], [id |-> 2, fieldTypeName |-> <<"r", "i", "c", "h", "-", "t", "e", "x", "t">>]>>,
   <<[id |-> 3, fieldTypeName |-> <<"v", "a", "r", "c", "h", "a", "r">>]>>}

\* fetchFieldTypes: backendFieldTypes.map(...) for the store
MappedFieldTypes(data) ==
  [i \in DOMAIN data |-> [id |-> data[i].id, apiId |-> data[i].fieldTypeName]]

\* fetchFieldTypes: backendFieldTypes.map(...) for the options
BuildOptions(data) ==
  [i \in DOMAIN data |->
     [id |-> data[i].id, type |-> mapFieldTypeNameToEnum(data[i].fieldTypeName).kind]]

\* a state setter that keeps the first list it was given
SetFieldTypeOptionsOnce(prev, options) ==
  IF prev \in {<<>>, FallbackOptions} THEN options ELSE prev

\* setFieldTypeOptions(options)
SetFieldTypeOptions(prev, options) == options

\* the fallback effect of useFieldTypes, run after the render that follows
\* a change of loading or of the length of the option list
AfterFallbackEffect(loading, options) ==
  IF ~loading /\ options = <<>> THEN FallbackOptions ELSE options

\* the request interceptor: the Authorization header is set from cms_token
NewCall(api) == [id |-> issued + 1, api |-> api, bearer |-> cmsToken # Null]

\* window.location.href = '/login': the document is loaded anew at /login,
\* the calls in flight are dropped, the stores that are not persisted and
\* the component state start afresh (the auth store is persisted)
ReloadAtLogin ==
  /\ location' = "/login"
  /\ calls' = {}
  /\ ftOptions' = <<>>
  /\ ftTypes' = <<>>
  /\ ftLoading' = FALSE
  /\ ftError' = Null
  /\ ftArrivals' = <<>>
  /\ fieldTypeSelectorOpen' = FALSE

\* the X of the field type picker: onClose
CloseSelector ==
  /\ fieldTypeSelectorOpen
  /\ fieldTypeSelectorOpen' = FALSE
  /\ UNCHANGED sessionVars
  /\ UNCHANGED exceptSession

\* the effect of FieldTypeSelector that calls refetch() while the picker is
\* open: fetchFieldTypes up to its await
RefetchEffect ==
  /\ fieldTypeSelectorOpen
  /\ location # "/login"
  /\ issued < MaxCalls
  /\ IF authToken = Null
     THEN \* checkAuthentication: logout(); navigate('/login')
          /\ location' = "/login"
          /\ fieldTypeSelectorOpen' = FALSE
          /\ ftOptions' = <<>>
          /\ ftArrivals' = <<>>
          /\ UNCHANGED <<authToken, cmsToken, calls, issued, ftTypes, ftLoading, ftError>>
     ELSE /\ ftLoading' = TRUE
          /\ calls' = calls \cup {NewCall("field-types")}
          /\ issued' = issued + 1
          /\ UNCHANGED <<authToken, cmsToken, location, ftOptions, ftTypes, ftError,
                         ftArrivals, fieldTypeSelectorOpen>>
  /\ UNCHANGED lastResponse
  /\ UNCHANGED exceptSession

\* a page of the CMS calls the collections API
CallCollections ==
  /\ location # "/login"
  /\ issued < MaxCalls
  /\ calls' = calls \cup {NewCall("collections")}
  /\ issued' = issued + 1
  /\ UNCHANGED <<authToken, cmsToken, location, fetchVars, lastResponse, fieldTypeSelectorOpen>>
  /\ UNCHANGED exceptSession

\* fetchFieldTypes after its await: a 200 response with an array
FieldTypesArrive(call, data) ==
  /\ call \in calls /\ call.api = "field-types"
  /\ calls' = calls \ {call}
  /\ ftTypes' = MappedFieldTypes(data)
  /\ ftLoading' = FALSE
  /\ ftOptions' = AfterFallbackEffect(FALSE, SetFieldTypeOptions(ftOptions, BuildOptions(data)))
  /\ ftArrivals' = Append(ftArrivals, [id |-> call.id, data |-> data])
  /\ lastResponse' = [api |-> call.api, status |-> 200]
  /\ UNCHANGED <<authToken, cmsToken, location, issued, ftError, fieldTypeSelectorOpen>>
  /\ UNCHANGED exceptSession

\* fetchFieldTypes after its await: a 200 response whose data is no array
FieldTypesMalformed(call) ==
  /\ call \in calls /\ call.api = "field-types"
  /\ calls' = calls \ {call}
  /\ ftError' = "Invalid response data format"
  /\ ftLoading' = FALSE
  /\ ftOptions' = AfterFallbackEffect(FALSE, ftOptions)
  /\ lastResponse' = [api |-> call.api, status |-> 200]
  /\ UNCHANGED <<authToken, cmsToken, location, issued, ftTypes, ftArrivals,
                 fieldTypeSelectorOpen>>
  /\ UNCHANGED exceptSession

\* fetchFieldTypes after its await: the call failed with a status other
\* than 401
FieldTypesFail(call) ==
  /\ call \in calls /\ call.api = "field-types"
  /\ calls' = calls \ {call}
  /\ ftError' = "Failed to load field types"
  /\ ftLoading' = FALSE
  /\ ftOptions' = AfterFallbackEffect(FALSE, ftOptions)
  /\ lastResponse' = [api |-> call.api, status |-> 500]
  /\ UNCHANGED <<authToken, cmsToken, location, issued, ftTypes, ftArrivals,
                 fieldTypeSelectorOpen>>
  /\ UNCHANGED exceptSession

\* a 401 for fetchFieldTypes: the response interceptor removes cms_token and
\* assigns window.location.href unless the page is /login; the catch block
\* sets the error, calls logout() and navigate('/login'); finally
\* setLoading(false); then the document assigned by the interceptor loads
FieldTypesUnauthorized(call) ==
  /\ call \in calls /\ call.api = "field-types"
  /\ cmsToken' = Null
  /\ authToken' = Null
  /\ IF location # "/login"
     THEN ReloadAtLogin
     ELSE /\ calls' = calls \ {call}
          /\ ftError' = "Authentication required. Please log in again."
          /\ ftLoading' = FALSE
          /\ ftOptions' = AfterFallbackEffect(FALSE, ftOptions)
          /\ UNCHANGED <<location, ftTypes, ftArrivals, fieldTypeSelectorOpen>>
  /\ lastResponse' = [api |-> call.api, status |-> 401]
  /\ UNCHANGED issued
  /\ UNCHANGED exceptSession

\* a 401 for a call of the collections API: the response interceptor alone
\* (the callers show a toast)
CollectionsUnauthorized(call) ==
  /\ call \in calls /\ call.api = "collections"
  /\ cmsToken' = Null
  /\ IF location # "/login"
     THEN ReloadAtLogin
     ELSE /\ calls' = calls \ {call}
          /\ UNCHANGED <<location, fetchVars, fieldTypeSelectorOpen>>
  /\ lastResponse' = [api |-> call.api, status |-> 401]
  /\ UNCHANGED <<authToken, issued>>
  /\ UNCHANGED exceptSession

\* any other answer to a call of the collections API
CollectionsAnswered(call, status) ==
  /\ call \in calls /\ call.api = "collections"
  /\ calls' = calls \ {call}
  /\ lastResponse' = [api |-> call.api, status |-> status]
  /\ UNCHANGED <<authToken, cmsToken, location, issued, fetchVars, fieldTypeSelectorOpen>>
  /\ UNCHANGED exceptSession

SessionInit ==
  /\ MaskIdle /\ RenderIdle /\ DialogIdle /\ CollIdle /\ DeriveIdle
  /\ DeleteIdle /\ PureIdle /\ SessionIdle /\ LaterIdle

SessionNext ==
  \/ OpenSelector
  \/ CloseSelector
  \/ RefetchEffect
  \/ CallCollections
  \/ \E call \in calls, data \in ResponseLists : FieldTypesArrive(call, data)
  \/ \E call \in calls : FieldTypesMalformed(call)
  \/ \E call \in calls : FieldTypesFail(call)
  \/ \E call \in calls : FieldTypesUnauthorized(call)
  \/ \E call \in calls : CollectionsUnauthorized(call)
  \/ \E call \in calls, status \in {200, 500} : CollectionsAnswered(call, status)

SpecSession == SessionInit /\ [][SessionNext]_vars

(***************************************************************************)
(* The JSON widget of the two content entry forms                          *)
(***************************************************************************)
JsonWhitespace == {" ", "\n"}

RECURSIVE SkipJsonWhitespace(_, _)
SkipJsonWhitespace(text, i) ==
  IF i <= Len(text) /\ text[i] \in JsonWhitespace THEN SkipJsonWhitespace(text, i + 1) ELSE i

\* the position after the run of digits that starts at i
RECURSIVE DigitsEnd(_, _)
DigitsEnd(text, i) ==
  IF i <= Len(text) /\ text[i] \in Digits THEN DigitsEnd(text, i + 1) ELSE i

\* the position of the quote that closes the string opened before i, 0 when
\* the text ends or a control character comes first
RECURSIVE ClosingQuote(_, _)
ClosingQuote(text, i) ==
  IF i > Len(text) \/ text[i] = "\n" THEN 0
  ELSE IF text[i] = "\"" THEN i
  ELSE ClosingQuote(text, i + 1)

JsonFail == [ok |-> FALSE, val |-> JsonUndefined, next |-> 0]

\* JSON.parse, by recursive descent, on texts of digits, quotes, brackets,
\* commas, letters and whitespace: a number is 0 or a digit other than 0
\* followed by digits, a string is quoted, an array is bracketed; the result
\* is the value read from position i and the position after it
RECURSIVE ParseValueAt(_, _)
RECURSIVE ParseElements(_, _, _)
ParseValueAt(text, i) ==
  LET j == SkipJsonWhitespace(text, i)
  IN  IF j > Len(text) THEN JsonFail
      ELSE IF text[j] = "0"
      THEN [ok |-> TRUE, val |-> JsonNumber(<<"0">>), next |-> j + 1]
      ELSE IF text[j] \in Digits
      THEN [ok |-> TRUE, val |-> JsonNumber(SubSeq(text, j, DigitsEnd(text, j) - 1)),
            next |-> DigitsEnd(text, j)]
      ELSE IF text[j] = "\""
      THEN LET q == ClosingQuote(text, j + 1)
           IN  IF q = 0 THEN JsonFail
               ELSE [ok |-> TRUE, val |-> JsonString(SubSeq(text, j + 1, q - 1)), next |-> q + 1]
      ELSE IF text[j] = "["
      THEN LET k == SkipJsonWhitespace(text, j + 1)
           IN  IF k <= Len(text) /\ text[k] = "]"
               THEN [ok |-> TRUE, val |-> JsonArray(<<>>), next |-> k + 1]
               ELSE ParseElements(text, j + 1, <<>>)
      ELSE JsonFail

ParseElements(text, i, items) ==
  LET element == ParseValueAt(text, i)
      k == SkipJsonWhitespace(text, element.next)
  IN  IF ~element.ok \/ k > Len(text) THEN JsonFail
      ELSE IF text[k] = ","
      THEN ParseElements(text, k + 1, Append(items, element.val))
      ELSE IF text[k] = "]"
      THEN [ok |-> TRUE, val |-> JsonArray(Append(items, element.val)), next |-> k + 1]
      ELSE JsonFail

\* JSON.parse(text): ok is FALSE when it throws
JSONParse(text) ==
  LET parsed == ParseValueAt(text, 1)
  IN  IF parsed.ok /\ SkipJsonWhitespace(text, parsed.next) > Len(text)
      THEN [ok |-> TRUE, val |-> parsed.val]
      ELSE [ok |-> FALSE, val |-> JsonUndefined]

Indent(level) == [i \in 1..(2 * level) |-> " "]

\* JSON.stringify(value, null, 2), level being the depth of the value
RECURSIVE Stringify(_, _)
RECURSIVE StringifyItems(_, _, _)
Stringify(value, level) ==
  CASE value.t = "number" -> value.text
    [] value.t = "string" -> <<"\"">> \o value.text \o <<"\"">>
    [] value.t = "array" ->
         IF value.items = <<>> THEN <<"[", "]">>
         ELSE <<"[", "\n">> \o StringifyItems(value.items, 1, level + 1)
              \o <<"\n">> \o Indent(level) \o <<"]">>
    [] OTHER -> <<>>

StringifyItems(items, i, level) ==
  Indent(level) \o Stringify(items[i], level)
  \o (IF i = Len(items) THEN <<>> ELSE <<",", "\n">> \o StringifyItems(items, i + 1, level))

\* the value attribute of the textarea.  renderField: typeof value ===
\* 'object' ? JSON.stringify(value, null, 2) : value || ''.  ContentEntryForm:
\* the same without || ''.
JsonDisplay(formName, value) ==
  CASE value.t = "array" -> Stringify(value, 0)
    [] value.t = "number" ->
         IF formName = "ContentForm" /\ value.text = <<"0">> THEN <<>> ELSE value.text
    [] value.t = "string" -> value.text
    [] OTHER -> <<>>

\* a widget that swallows the parse error without calling onChange
JsonOnChangeParsedOnly(text) ==
  IF JSONParse(text).ok THEN <<JSONParse(text).val>> ELSE <<>>

\* onChange of the textarea: the arguments of the calls of the form's
\* onChange, in order (try JSON.parse, catch and pass the text)
JsonOnChange(text) ==
  IF JSONParse(text).ok THEN <<JSONParse(text).val>> ELSE <<JsonString(text)>>

MaxJsonLen == 4

\* characters the user types into the JSON textarea
JsonAlphabet == {"0", "1", "a", "\"", "[", "]", ","}

\* one edit of the text shown: a character inserted, up to the length bound,
\* or a character deleted
JsonChange ==
  /\ \E text \in Edits(JsonDisplay(jsForm, jsValue), JsonAlphabet) :
       /\ Len(text) <= MaxJsonLen \/ Len(text) < Len(JsonDisplay(jsForm, jsValue))
       /\ jsText' = [edited |-> TRUE, text |-> text]
       /\ jsCalls' = JsonOnChange(text)
       /\ jsValue' = IF JsonOnChange(text) = <<>> THEN jsValue
                     ELSE JsonOnChange(text)[Len(JsonOnChange(text))]
  /\ UNCHANGED jsForm
  /\ UNCHANGED exceptJson

JsonInit ==
  /\ MaskIdle /\ RenderIdle /\ DialogIdle /\ CollIdle /\ DeriveIdle
  /\ DeleteIdle /\ PasswordIdle /\ MapIdle /\ ViewIdle /\ SessionIdle /\ LaterIdle
  /\ jsForm \in {"ContentForm", "ContentEntryForm"}
  /\ jsValue = JsonUndefined
  /\ jsText = NoEdit
  /\ jsCalls = <<>>

SpecJson == JsonInit /\ [][JsonChange]_vars

(***************************************************************************)
(* ContentForm: the tabs of a content entry                                *)
(***************************************************************************)
\* values of Field.dependOn: '' is what the dialog stores when the Depend On
\* input is left empty, the others are texts typed into it
DependOnValues == {"", "seo", "meta", "main", "constructor"}

\* the property names every object literal inherits from Object.prototype
ObjectPrototypeKeys ==
  {"constructor", "toString", "valueOf", "hasOwnProperty", "isPrototypeOf",
   "propertyIsEnumerable", "toLocaleString", "__proto__"}

MaxGroupFields == 3

\* collection.fields, each Field by its id and its dependOn
GroupFieldLists ==
  UNION {[1..n -> DependOnValues] : n \in 0..MaxGroupFields}

FieldsOf(dependOns) == [i \in 1..Len(dependOns) |-> [id |-> i, dependOn |-> dependOns[i]]]

\* the position of the own property name among the keys of groups, 0 when
\* groups has no such own property
OwnKey(groups, name) ==
  IF \E k \in 1..Len(groups) : groups[k].name = name
  THEN CHOOSE k \in 1..Len(groups) : groups[k].name = name
  ELSE 0

Push(groups, k, field) ==
  [groups EXCEPT ![k] = [name |-> groups[k].name, fields |-> Append(groups[k].fields, field)]]

\* the forEach of fieldGroups from the i-th field on: groups is the object
\* built so far, its keys in insertion order; threw is TRUE when
\* groups[field.dependOn].push is not a function
RECURSIVE GroupLoop(_, _, _)
GroupLoop(list, i, groups) ==
  IF i > Len(list) THEN [threw |-> FALSE, groups |-> groups]
  ELSE IF list[i].dependOn = ""
  THEN GroupLoop(list, i + 1, Push(groups, OwnKey(groups, "main"), list[i]))
  ELSE IF OwnKey(groups, list[i].dependOn) # 0
  THEN GroupLoop(list, i + 1, Push(groups, OwnKey(groups, list[i].dependOn), list[i]))
  ELSE IF list[i].dependOn \in ObjectPrototypeKeys
  THEN [threw |-> TRUE, groups |-> groups]
  ELSE GroupLoop(list, i + 1,
                 Append(groups, [name |-> list[i].dependOn, fields |-> <<list[i]>>]))

fieldGroups(list) == GroupLoop(list, 1, <<[name |-> "main", fields |-> <<>>]>>)

exceptGroup ==
  <<maskVars, renderVars, dialogVars, collVars, deriveVars, deleteVars, pureVars, sessionVars,
    numberVars, packVars, failVars, createVars>>

GroupInit ==
  /\ MaskIdle /\ RenderIdle /\ DialogIdle /\ CollIdle /\ DeriveIdle
  /\ DeleteIdle /\ PureIdle /\ SessionIdle /\ NumberWidgetIdle /\ PackIdle /\ FailIdle /\ CreateIdle
  /\ gpFields \in {FieldsOf(d) : d \in GroupFieldLists}
  /\ gpGroups = <<>>
  /\ gpPc = "idle"

\* ContentForm renders: the memo computes fieldGroups
RenderContentForm ==
  /\ gpPc = "idle"
  /\ gpGroups' = fieldGroups(gpFields).groups
  /\ gpPc' = IF fieldGroups(gpFields).threw THEN "threw" ELSE "rendered"
  /\ UNCHANGED gpFields
  /\ UNCHANGED exceptGroup

SpecGroup == GroupInit /\ [][RenderContentForm]_vars

(***************************************************************************)
(* The NUMBER widget: typed edits and the two buttons                      *)
(***************************************************************************)
MaxNumber == 4

\* attributes.min, max and step of the Field (whole numbers)
NumberFields ==
  {[min |-> lo, max |-> hi, step |-> st] :
     lo \in {Undef} \cup {Num(x) : x \in 0..2},
     hi \in {Undef} \cup {Num(x) : x \in 1..3},
     st \in {Undef, Num(0), Num(1), Num(2)}}

\* the texts the number input hands to onChange
TypedNumbers == {<<>>} \cup {NumberToString(x) : x \in 0..MaxNumber}

\* parseFloat(value) || 0 of the buttons: value is undefined, null or a number
ParseValueOrZero(value) == IF value.t = "number" THEN value.n ELSE 0

\* attributes.step || 1
StepOf(field) == IF Falsy(field.step) THEN 1 ELSE field.step.n

exceptNumber ==
  <<maskVars, renderVars, dialogVars, collVars, deriveVars, deleteVars, pureVars, sessionVars,
    groupVars, packVars, failVars, createVars>>

\* onChange of the input: parse, clamp to attributes.min and attributes.max
NumberTyped ==
  /\ \E val \in TypedNumbers :
       LET parsedValue == IF val # <<>> THEN ParseFloat(val) ELSE 0
           atLeastMin == IF nwField.min # Undef /\ parsedValue < nwField.min.n
                         THEN nwField.min.n ELSE parsedValue
           clamped == IF nwField.max # Undef /\ atLeastMin > nwField.max.n
                      THEN nwField.max.n ELSE atLeastMin
           arg == IF val # <<>> THEN Num(clamped) ELSE JsNull
       IN  /\ nwValue' = arg
           /\ nwLast' = [handler |-> "change", called |-> TRUE, before |-> nwValue, arg |-> arg]
  /\ UNCHANGED nwField
  /\ UNCHANGED exceptNumber

\* onClick of the decrement button (either layout)
NumberDecrement ==
  /\ LET newValue == ParseValueOrZero(nwValue) - StepOf(nwField)
     IN  IF nwField.min = Undef \/ newValue >= nwField.min.n
         THEN /\ newValue >= 0 - MaxNumber
              /\ nwValue' = Num(newValue)
              /\ nwLast' = [handler |-> "decrement", called |-> TRUE, before |-> nwValue,
                            arg |-> Num(newValue)]
         ELSE /\ nwLast' = [handler |-> "decrement", called |-> FALSE, before |-> nwValue,
                            arg |-> Undef]
              /\ UNCHANGED nwValue
  /\ UNCHANGED nwField
  /\ UNCHANGED exceptNumber

\* onClick of the increment button (either layout)
NumberIncrement ==
  /\ LET newValue == ParseValueOrZero(nwValue) + StepOf(nwField)
     IN  IF nwField.max = Undef \/ newValue <= nwField.max.n
         THEN /\ newValue <= MaxNumber
              /\ nwValue' = Num(newValue)
              /\ nwLast' = [handler |-> "increment", called |-> TRUE, before |-> nwValue,
                            arg |-> Num(newValue)]
         ELSE /\ nwLast' = [handler |-> "increment", called |-> FALSE, before |-> nwValue,
                            arg |-> Undef]
              /\ UNCHANGED nwValue
  /\ UNCHANGED nwField
  /\ UNCHANGED exceptNumber

NumberInit ==
  /\ MaskIdle /\ RenderIdle /\ DialogIdle /\ CollIdle /\ DeriveIdle
  /\ DeleteIdle /\ PureIdle /\ SessionIdle /\ GroupIdle /\ PackIdle /\ FailIdle /\ CreateIdle
  /\ nwField \in NumberFields
  /\ nwValue = Undef
  /\ nwLast = NoClick

NumberNext == NumberTyped \/ NumberDecrement \/ NumberIncrement

SpecNumber == NumberInit /\ [][NumberNext]_vars

(***************************************************************************)
(* The flags of a collection in the requests that write it                 *)
(***************************************************************************)
MaxPluralLen == 3

\* characters of an API ID (plural) that collectionSchema accepts
PluralAlphabet == {"a", "s", "_"}

\* the flags of a collection of the store: apiIdPlural is '' for a
\* collection fetched without additionalInformation and has two characters
\* or more when it went through collectionSchema
FlagValues ==
  {[apiIdPlural |-> p, draftAndPublish |-> d, isInternationally |-> i] :
     p \in UNION {[1..n -> PluralAlphabet] : n \in {0} \cup 2..MaxPluralLen},
     d \in BOOLEAN, i \in BOOLEAN}

\* the escapes of a string under JSON.stringify
RECURSIVE EscapeJson(_)
EscapeJson(chars) ==
  IF chars = <<>> THEN <<>>
  ELSE (IF Head(chars) \in {"\"", "\\"} THEN <<"\\", Head(chars)>> ELSE <<Head(chars)>>)
       \o EscapeJson(Tail(chars))

BoolText(b) == IF b THEN <<"t", "r", "u", "e">> ELSE <<"f", "a", "l", "s", "e">>

\* JSON.stringify({apiIdPlural, draftAndPublish, isInternationally}); each
\* quoted key is one element of the text
StringifyFlags(flags) ==
  <<"{", "\"apiIdPlural\"", ":", "\"">> \o EscapeJson(flags.apiIdPlural)
  \o <<"\"", ",", "\"draftAndPublish\"", ":">> \o BoolText(flags.draftAndPublish)
  \o <<",", "\"isInternationally\"", ":">> \o BoolText(flags.isInternationally) \o <<"}">>

\* the string literal whose opening quote is before position i: its value
\* and the position after its closing quote
RECURSIVE ReadJsonString(_, _, _)
ReadJsonString(text, i, value) ==
  IF text[i] = "\"" THEN [value |-> value, next |-> i + 1]
  ELSE IF text[i] = "\\" THEN ReadJsonString(text, i + 2, Append(value, text[i + 1]))
  ELSE ReadJsonString(text, i + 1, Append(value, text[i]))

\* JSON.parse of a text written by StringifyFlags
ParseFlags(text) ==
  LET plural == ReadJsonString(text, 5, <<>>)
      first == plural.next + 3
      draft == text[first] = "t"
      second == first + (IF draft THEN 4 ELSE 5) + 3
  IN  [apiIdPlural |-> plural.value, draftAndPublish |-> draft,
       isInternationally |-> text[second] = "t"]

\* the unpack of fetchCollections and fetchCollection:
\* additionalInformation is parsed when it is there, x || default otherwise
Unpack(body) ==
  IF body.hasAdditionalInformation /\ body.additionalInformation # <<>>
  THEN ParseFlags(body.additionalInformation)
  ELSE NoFlags

exceptPack ==
  <<maskVars, renderVars, dialogVars, collVars, deriveVars, deleteVars, pureVars, sessionVars,
    groupVars, numberVars, failVars, createVars>>

\* ContentTypes.handleSaveCollection: collectionsApi.create(collectionData)
CreateFromDialog ==
  /\ pkPc = "idle"
  /\ Len(pkFlags.apiIdPlural) >= 2
  /\ pkPath' = "dialog"
  /\ pkBody' = [hasAdditionalInformation |-> TRUE,
                additionalInformation |-> StringifyFlags(pkFlags), own |-> NoFlags]
  /\ pkPc' = "sent"
  /\ UNCHANGED pkFlags
  /\ UNCHANGED exceptPack

\* ContentTypeCreate.onSubmit: collectionsApi.create(collectionData)
CreateFromPage ==
  /\ pkPc = "idle"
  /\ Len(pkFlags.apiIdPlural) >= 2
  /\ pkPath' = "page"
  /\ pkBody' = [hasAdditionalInformation |-> FALSE, additionalInformation |-> <<>>,
                own |-> pkFlags]
  /\ pkPc' = "sent"
  /\ UNCHANGED pkFlags
  /\ UNCHANGED exceptPack

\* handleSaveField and handleDeleteField:
\* collectionsApi.update(id, {...selectedCollection, fields: updatedFields})
UpdateFields ==
  /\ pkPc = "idle"
  /\ pkPath' = "update"
  /\ pkBody' = [hasAdditionalInformation |-> FALSE, additionalInformation |-> <<>>,
                own |-> pkFlags]
  /\ pkPc' = "sent"
  /\ UNCHANGED pkFlags
  /\ UNCHANGED exceptPack

PackInit ==
  /\ MaskIdle /\ RenderIdle /\ DialogIdle /\ CollIdle /\ DeriveIdle
  /\ DeleteIdle /\ PureIdle /\ SessionIdle /\ GroupIdle /\ NumberWidgetIdle /\ FailIdle /\ CreateIdle
  /\ pkFlags \in FlagValues
  /\ pkPath = "none"
  /\ pkBody = NoBody
  /\ pkPc = "idle"

PackNext == CreateFromDialog \/ CreateFromPage \/ UpdateFields

SpecPack == PackInit /\ [][PackNext]_vars

(***************************************************************************)
(* The answers to the calls that write a collection                        *)
(***************************************************************************)
MaxAnswers == 3

\* the status of an answer: success, a failure of the backend, unauthorized
Statuses == {200, 500, 401}

CollectionIds == <<"1", "2">>

\* the Fields the dialog hands to handleSaveField: the stored field renamed,
\* and a new field
SaveInputs ==
  {[StoredField(TEXT) EXCEPT !.name = Title], [StoredField(TEXT) EXCEPT !.id = NoId]}

\* an update of the store that is made before the answer and not taken back
StoredAfterOptimistic(status, current, updated) == updated

\* what the store holds after the answer to a writing call: the try block
\* updates it after the await, the catch block leaves it alone
StoredAfter(status, current, updated) == IF status = 200 THEN updated ELSE current

exceptFail ==
  <<maskVars, renderVars, collVars, deriveVars, pureVars, groupVars, numberVars, packVars,
    createVars>>

\* window.location.href = '/login' on the pages of the collections: the
\* collection store is not persisted and the component state starts afresh
ReloadPages ==
  /\ ReloadAtLogin
  /\ cmsToken' = Null
  /\ fields' = <<>>
  /\ requests' = <<>>
  /\ deleteRequests' = <<>>
  /\ fieldToDelete' = NoId
  /\ deleteFieldDialogOpen' = FALSE
  /\ collections' = <<>>
  /\ collectionToDelete' = "null"
  /\ deleteConfirmOpen' = FALSE
  /\ collDeletes' = <<>>

\* the dialog's onSave: handleSaveField up to its await
SaveField ==
  /\ location # "/login"
  /\ now < MaxSaves
  /\ \E field \in SaveInputs :
       /\ saved' = field
       /\ HandleSaveField(field)
  /\ UNCHANGED <<pageVars, form, userSetA, userSetV, apiIdEdited, inputs>>
  /\ UNCHANGED <<deleteVars, sessionVars, failVars>>
  /\ UNCHANGED exceptFail

\* handleSaveField after its await
SaveAnswered(i, status) ==
  /\ i \in DOMAIN requests
  /\ answers < MaxAnswers
  /\ answers' = answers + 1
  /\ lastResponse' = [api |-> "update", status |-> status]
  /\ IF status = 401
     THEN ReloadPages
     ELSE /\ fields' = StoredAfter(status, fields, requests[i])
          /\ requests' = RemoveAt(requests, i)
          /\ UNCHANGED <<cmsToken, location, calls, fetchVars, fieldTypeSelectorOpen>>
          /\ UNCHANGED <<deleteVars, collections, collectionToDelete, deleteConfirmOpen,
                         collDeletes>>
  /\ UNCHANGED <<selectedFieldType, fieldToEdit, fieldConfigOpen, now, form, historyVars>>
  /\ UNCHANGED <<authToken, issued>>
  /\ UNCHANGED exceptFail

\* handleDeleteField after its await, with the finally block
DeleteAnswered(i, status) ==
  /\ i \in DOMAIN deleteRequests
  /\ answers < MaxAnswers
  /\ answers' = answers + 1
  /\ lastResponse' = [api |-> "update", status |-> status]
  /\ IF status = 401
     THEN ReloadPages
     ELSE /\ fields' = StoredAfter(status, fields, deleteRequests[i])
          /\ deleteRequests' = RemoveAt(deleteRequests, i)
          /\ deleteFieldDialogOpen' = FALSE
          /\ fieldToDelete' = NoId
          /\ UNCHANGED <<cmsToken, location, calls, fetchVars, fieldTypeSelectorOpen>>
          /\ UNCHANGED <<requests, collections, collectionToDelete, deleteConfirmOpen,
                         collDeletes>>
  /\ UNCHANGED <<selectedFieldType, fieldToEdit, fieldConfigOpen, now, form, historyVars>>
  /\ UNCHANGED <<authToken, issued>>
  /\ UNCHANGED exceptFail

\* the bin button of a collection card: confirmDeleteCollection(id)
ConfirmDeleteCollection(k) ==
  /\ k \in DOMAIN collections
  /\ ~deleteConfirmOpen /\ ~deleteFieldDialogOpen
  /\ collectionToDelete' = collections[k]
  /\ deleteConfirmOpen' = TRUE
  /\ UNCHANGED <<collections, collDeletes, answers>>
  /\ UNCHANGED <<dialogVars, deleteVars, sessionVars>>
  /\ UNCHANGED exceptFail

\* the "Delete" button: handleDeleteCollection up to its await
HandleDeleteCollection ==
  /\ deleteConfirmOpen
  /\ collectionToDelete # "null"
  /\ Len(collDeletes) < MaxDeletes
  /\ collDeletes' = Append(collDeletes, collectionToDelete)
  /\ UNCHANGED <<collections, collectionToDelete, deleteConfirmOpen, answers>>
  /\ UNCHANGED <<dialogVars, deleteVars, sessionVars>>
  /\ UNCHANGED exceptFail

\* handleDeleteCollection after its await: removeCollection in the try
\* block, a toast in the catch block, then the finally block
CollectionDeleteAnswered(i, status) ==
  /\ i \in DOMAIN collDeletes
  /\ answers < MaxAnswers
  /\ answers' = answers + 1
  /\ lastResponse' = [api |-> "delete", status |-> status]
  /\ IF status = 401
     THEN ReloadPages
     ELSE /\ collections' =
               StoredAfter(status, collections,
                           SelectSeq(collections, LAMBDA c : c # collDeletes[i]))
          /\ collDeletes' = RemoveAt(collDeletes, i)
          /\ deleteConfirmOpen' = FALSE
          /\ collectionToDelete' = "null"
          /\ UNCHANGED <<cmsToken, location, calls, fetchVars, fieldTypeSelectorOpen>>
          /\ UNCHANGED <<fields, requests, deleteVars>>
  /\ UNCHANGED <<selectedFieldType, fieldToEdit, fieldConfigOpen, now, form, historyVars>>
  /\ UNCHANGED <<authToken, issued>>
  /\ UNCHANGED exceptFail

FailInit ==
  /\ MaskIdle /\ RenderIdle /\ CollIdle /\ DeriveIdle /\ PageIdle
  /\ DeleteIdle /\ PureIdle /\ SessionIdle /\ GroupIdle /\ NumberWidgetIdle /\ PackIdle /\ CreateIdle
  /\ fields \in {<<>>, <<StoredField(TEXT)>>}
  /\ collections = CollectionIds
  /\ collectionToDelete = "null"
  /\ deleteConfirmOpen = FALSE
  /\ collDeletes = <<>>
  /\ answers = 0

FailNext ==
  \/ SaveField
  \/ \E i \in 1..MaxSaves, status \in Statuses : SaveAnswered(i, status)
  \/ \E i \in 1..(MaxSaves + 1) : ConfirmDeleteField(i)
  \/ CancelDeleteField
  \/ HandleDeleteField
  \/ \E i \in 1..MaxDeletes, status \in Statuses : DeleteAnswered(i, status)
  \/ \E k \in DOMAIN CollectionIds : ConfirmDeleteCollection(k)
  \/ HandleDeleteCollection
  \/ \E i \in 1..MaxDeletes, status \in Statuses : CollectionDeleteAnswered(i, status)

SpecFail == FailInit /\ [][FailNext]_vars

(***************************************************************************)
(* The create-collection dialog and handleSaveCollection                   *)
(***************************************************************************)
\* collectionSchema: the name and the two API IDs have two characters or
\* more, the API IDs match /^[a-zA-Z0-9_]+$/
CollectionSchemaValid ==
  /\ Len(cfName) >= 2
  /\ Len(cfSingular) >= 2
  /\ Len(cfPlural) >= 2
  /\ \A i \in 1..Len(cfSingular) : cfSingular[i] \in IdChars \cup Upper
  /\ \A i \in 1..Len(cfPlural) : cfPlural[i] \in IdChars \cup Upper

\* isLoading after `await onSave(data)` of the dialog's onSubmit:
\* handleSaveCollection catches every error itself and returns, so the
\* promise the dialog awaits is fulfilled and its catch block does not run
LoadingAfter(failed) == TRUE

exceptCreate ==
  <<maskVars, renderVars, dialogVars, deriveVars, deleteVars, pureVars, sessionVars,
    groupVars, numberVars, packVars, failVars>>

\* the "Create new collection" button of the page
HandleCreateCollection ==
  /\ ~createDialogOpen
  /\ createDialogOpen' = TRUE
  /\ UNCHANGED <<isLoading, cdPc, cdLast>>
  /\ UNCHANGED collVars
  /\ UNCHANGED exceptCreate

\* "Cancel" and the X of the dialog: onClose
CloseCreateDialog ==
  /\ createDialogOpen
  /\ createDialogOpen' = FALSE
  /\ UNCHANGED <<isLoading, cdPc, cdLast>>
  /\ UNCHANGED collVars
  /\ UNCHANGED exceptCreate

\* the submit button, enabled while isLoading is false: form.handleSubmit
\* validates, onSubmit sets isLoading and calls onSave, which starts with the
\* connection check
SubmitCollection ==
  /\ createDialogOpen
  /\ ~isLoading
  /\ cdPc = "idle"
  /\ CollectionSchemaValid
  /\ isLoading' = TRUE
  /\ cdPc' = "checkDatabaseConnection"
  /\ UNCHANGED <<createDialogOpen, cdLast>>
  /\ UNCHANGED collVars
  /\ UNCHANGED exceptCreate

\* one of the three awaits of handleSaveCollection is answered: on success
\* it goes on to the next call and, after the last, closes the dialog; on
\* failure its catch block shows a toast and it returns
AwaitAnswered(ok) ==
  /\ cdPc # "idle"
  /\ IF ok /\ cdPc # "create"
     THEN /\ cdPc' = (IF cdPc = "checkDatabaseConnection" THEN "getAll" ELSE "create")
          /\ UNCHANGED <<createDialogOpen, isLoading, cdLast>>
     ELSE /\ cdPc' = "idle"
          /\ cdLast' = (IF ok THEN "created" ELSE "failed")
          /\ createDialogOpen' = (IF ok THEN FALSE ELSE createDialogOpen)
          /\ isLoading' = LoadingAfter(~ok)
  /\ UNCHANGED collVars
  /\ UNCHANGED exceptCreate

CreateInit ==
  /\ MaskIdle /\ RenderIdle /\ DialogIdle /\ DeriveIdle /\ CollIdle
  /\ DeleteIdle /\ PureIdle /\ SessionIdle
  /\ GroupIdle /\ NumberWidgetIdle /\ PackIdle /\ FailIdle
  /\ CreateIdle

CreateNext ==
  \/ HandleCreateCollection
  \/ CloseCreateDialog
  \/ \E name \in CollNames : createDialogOpen /\ CollHandleNameChange(name)
  \/ \E apiId \in CollApiIds : createDialogOpen /\ ChangeApiIdSingular(apiId)
  \/ \E apiId \in CollApiIds : createDialogOpen /\ ChangeApiIdPlural(apiId)
  \/ SubmitCollection
  \/ \E ok \in BOOLEAN : AwaitAnswered(ok)

SpecCreate == CreateInit /\ [][CreateNext]_vars

(***************************************************************************)
(* Login, logout and the two copies of the token                           *)
(***************************************************************************)
exceptAuth ==
  <<maskVars, renderVars, dialogVars, collVars, deriveVars, deleteVars, pureVars, laterVars>>

\* CMSLayout.handleLogout: logout() of the auth store, navigate('/login')
HandleLogout ==
  /\ location # "/login"
  /\ authToken' = Null
  /\ location' = "/login"
  /\ UNCHANGED <<cmsToken, calls, issued, fetchVars, lastResponse>>
  /\ UNCHANGED exceptAuth

\* the mount effect of the login page: navigate('/dashboard') when
\* localStorage holds cms_token
LoginMount ==
  /\ location = "/login"
  /\ cmsToken # Null
  /\ location' = "/dashboard"
  /\ UNCHANGED <<authToken, cmsToken, calls, issued, fetchVars, lastResponse>>
  /\ UNCHANGED exceptAuth

\* the checkAuth effect of CMSLayout: navigate('/login') when the auth store
\* holds no token
CheckAuth ==
  /\ location # "/login"
  /\ authToken = Null
  /\ location' = "/login"
  /\ UNCHANGED <<authToken, cmsToken, calls, issued, fetchVars, lastResponse>>
  /\ UNCHANGED exceptAuth

\* Login.onSubmit with a response that carries an accessToken:
\* login(token, user), localStorage.setItem('cms_token', token), navigate
LoginSucceeds ==
  /\ location = "/login"
  /\ authToken' = Jwt
  /\ cmsToken' = Jwt
  /\ location' = "/dashboard"
  /\ lastResponse' = [api |-> "login", status |-> 200]
  /\ UNCHANGED <<calls, issued, fetchVars>>
  /\ UNCHANGED exceptAuth

\* Login.onSubmit answered with 401: the response interceptor removes
\* cms_token and, the page being /login, does not navigate
LoginUnauthorized ==
  /\ location = "/login"
  /\ cmsToken' = Null
  /\ lastResponse' = [api |-> "login", status |-> 401]
  /\ UNCHANGED <<authToken, location, calls, issued, fetchVars>>
  /\ UNCHANGED exceptAuth

AuthNext ==
  \/ HandleLogout
  \/ LoginMount
  \/ CheckAuth
  \/ LoginSucceeds
  \/ LoginUnauthorized
  \/ CallCollections
  \/ \E call \in calls : CollectionsUnauthorized(call)
  \/ \E call \in calls, status \in {200, 500} : CollectionsAnswered(call, status)

SpecAuth == SessionInit /\ [][AuthNext]_vars

(***************************************************************************)
(* Claims about the renderer                                               *)
(***************************************************************************)
IsPhoneInput == mRaw = PhoneRaw /\ mMask = PhoneMask

\* C3 as stated: the phone example masks to 555-123-4567, and for every mask
\* of '9' slots and literal characters and every digit string no longer than
\* the number of slots, unmaskValue(applyMask(raw, mask), mask) = raw
C3_RoundTripAnyLiteral ==
  /\ (mPc # "raw" /\ IsPhoneInput) => mMasked = PhoneMasked
  /\ mPc = "unmasked" => mUnmasked = mRaw

NoDigitLiteral(mask) == \A i \in DOMAIN mask : mask[i] \notin (Digits \ {"9"})

\* C3 amended: the phone example masks to 555-123-4567 and unmasks to the raw
\* digits, and the round trip holds for every mask of '9' slots and literal
\* characters that are not digits
C3_RoundTrip ==
  /\ (mPc # "raw" /\ IsPhoneInput) => mMasked = PhoneMasked
  /\ (mPc = "unmasked" /\ NoDigitLiteral(mMask)) => mUnmasked = mRaw

\* the phone example has gone through both functions
C3_Witness == mPc = "unmasked" /\ IsPhoneInput /\ mUnmasked = PhoneRaw

\* the masked string in which the first Len(typed) digit slots hold the typed
\* digits in order and the other digit slots hold the slot character
FilledMask(mask, typed, slotChar) ==
  [i \in DOMAIN mask |->
     IF mask[i] = "9"
     THEN LET j == CountNine(SubSeq(mask, 1, i))
          IN  IF j <= Len(typed) THEN typed[j] ELSE slotChar
     ELSE mask[i]]

\* C4: after the k-th typed digit the stored value has its first k digit slots
\* filled with the typed digits and the remaining digit slots equal to '_'
C4_IncrementalFill ==
  (rField.type = INPUT_MASK /\ rTyped # <<>> /\ Len(rTyped) <= CountNine(rField.mask))
    => rValue = FilledMask(rField.mask, rTyped, "_")

\* the class of strings each key filter stands for
InFilterClass(keyfilter, value) == MatchKeyfilter(keyfilter, value)

\* C5: for TEXT and INPUT_TEXTAREA and each of the eight key filters, an edit
\* whose result is outside the filter's class does not reach onChange, and so
\* the value always matches the filter
C5_KeyfilterRejects ==
  (rField.type \in {TEXT, INPUT_TEXTAREA} /\ rField.keyfilter \in TextKeyfilters)
    => /\ (rLast.handler = "change" /\ ~rLast.matched) => ~rLast.called
       /\ InFilterClass(rField.keyfilter, rValue)

C10Validations == [required |-> TRUE, minLength |-> 3, maxLength |-> 0, regex |-> ""]

\* C10: on blur of a TEXT field with validations {required: true,
\* minLength: 3}, the verdict is invalid exactly for values shorter than 3
C10_MinLengthVerdict ==
  (rField.type = TEXT /\ rField.validations = C10Validations /\ rLast.handler = "blur")
    => (rLast.isValid <=> Len(rValue) >= 3)

\* such a field was left with a two-character value and judged invalid
C10_Witness ==
  /\ rField.type = TEXT /\ rField.validations = C10Validations
  /\ rLast.handler = "blur" /\ Len(rValue) = 2 /\ ~rLast.isValid

(***************************************************************************)
(* Claims about the field configuration dialog                             *)
(***************************************************************************)
\* C1: the default-fill is idempotent: applied to the Field a save produced
\* (its own output), it yields the same attributes and validations.
C1_FillIdempotent ==
  saved # NoField =>
    /\ DefaultFill(saved).attributes = saved.attributes
    /\ DefaultFill(saved).validations = saved.validations

\* a masked field saved after user input with the mask left unset, so that
\* validations.mask was filled from the defaulted attributes.mask
C1_Witness ==
  /\ saved # NoField
  /\ saved.type = INPUT_MASK
  /\ inputs > 0
  /\ userSetA["mask"] = Undef
  /\ saved.validations["mask"] = Str("999-999-9999")

\* C2: every attributes or validations key the user set before saving has
\* the value the user gave it in the Field passed to the save callback.
C2_FillAdditive ==
  saved # NoField =>
    /\ \A k \in AttrKeys : userSetA[k] # Undef => saved.attributes[k] = userSetA[k]
    /\ \A k \in ValKeys : userSetV[k] # Undef => saved.validations[k] = userSetV[k]

\* C6: once the user has typed into the API ID input of the dialog, a later
\* change of the name leaves the API ID as it is, for a new field and for an
\* edited one.
C6_ApiIdKept ==
  [][(apiIdEdited /\ form'.name # form.name) => form'.apiId = form.apiId]_vars

\* the position-wise reading of the derivation: a whitespace character gives
\* "_" when it starts a run and nothing otherwise, any other character gives
\* its lower-case form when that is in [a-z0-9_] and nothing otherwise
DeriveRefAt(name, i) ==
  IF name[i] \in Whitespace
  THEN IF i > 1 /\ name[i - 1] \in Whitespace THEN <<>> ELSE <<"_">>
  ELSE IF ToLowerChar(name[i]) \in IdChars THEN <<ToLowerChar(name[i])>> ELSE <<>>

RECURSIVE DeriveRefUpTo(_, _)
DeriveRefUpTo(name, n) ==
  IF n = 0 THEN <<>> ELSE DeriveRefUpTo(name, n - 1) \o DeriveRefAt(name, n)

DeriveRef(name) == DeriveRefUpTo(name, Len(name))

\* C7: the derived API ID is the name in lower case with every maximal run of
\* whitespace replaced by one underscore and every character outside
\* [a-z0-9_] deleted; "My Field!" gives "my_field"; the result contains only
\* characters of [a-z0-9_].
C7_Derive ==
  dvPc = "derived" =>
    /\ dvApiId = DeriveRef(dvName)
    /\ \A i \in DOMAIN dvApiId : dvApiId[i] \in IdChars
    /\ dvName = MyField => dvApiId = <<"m", "y", "_", "f", "i", "e", "l", "d">>

\* the example, and a name with a run of two whitespace characters
C7_Witness ==
  \/ dvPc = "derived" /\ dvName = MyField /\ Len(dvApiId) = 8
  \/ dvPc = "derived" /\ dvName = <<"a", " ", "\t">> /\ dvApiId = <<"a", "_">>

\* C8: in the collection creation form, after a name change made while
\* neither API ID input was typed into, apiIdSingular is the derived id and
\* apiIdPlural is the derived id followed by "s"; "Restaurant" gives
\* "restaurant" and "restaurants".
C8_CollectionApiIds ==
  (cfLast = "name" /\ cfEdited = {}) =>
    /\ cfSingular = derive(cfName)
    /\ cfPlural = derive(cfName) \o <<"s">>
    /\ cfName = Restaurant =>
         /\ cfSingular = <<"r", "e", "s", "t", "a", "u", "r", "a", "n", "t">>
         /\ cfPlural = <<"r", "e", "s", "t", "a", "u", "r", "a", "n", "t", "s">>

\* the name was changed to "Restaurant" with no API ID input typed into,
\* and both API IDs were derived
C8_Witness ==
  /\ cfLast = "name"
  /\ cfEdited = {}
  /\ cfName = Restaurant
  /\ Len(cfPlural) = 11

\* C9: saving a new TEXT field named "Title" with the required switch on
\* yields a Field with required and validations.required true and
\* attributes.variant "outlined", and that Field, under a temporary id, is
\* the last entry of the list handed to the update call.
C9_NewTextTitle ==
  (/\ saved # NoField
   /\ selectedFieldType = TEXT
   /\ fieldToEdit = NoField
   /\ saved.name = Title
   /\ userSetV["required"] = Bool(TRUE))
  =>
  (/\ saved.required = Bool(TRUE)
   /\ saved.validations["required"] = Bool(TRUE)
   /\ saved.attributes["variant"] = Str("outlined")
   /\ sent # <<>>
   /\ sent[Len(sent)].id.temp
   /\ [sent[Len(sent)] EXCEPT !.id = NoId] = saved)

(***************************************************************************)
(* Claims about the blur handlers                                          *)
(***************************************************************************)
\* C11: for each of TEXT, NUMBER, INPUT_MASK and INPUT_TEXTAREA, a blur that
\* leaves the field empty while validations.required is the only rule
\* configured gives the verdict invalid.
C11_RequiredOnBlur ==
  (/\ rLast.handler = "blur"
   /\ rField.validations = OnlyRequired
   /\ (IF rField.type = NUMBER THEN NumberDisplay(rValue) ELSE rValue) = <<>>)
  => ~rLast.isValid

\* C12: after a blur the invalid flag of the field (attributes.invalid) is
\* true when the verdict was invalid and false when it was valid.
C12_InvalidFlag ==
  rLast.handler = "blur" => (rField.invalid <=> ~rLast.isValid)

(***************************************************************************)
(* Claims about the password strength, the visibility and the kind mapping *)
(***************************************************************************)
\* the six criteria of the strength estimate
PasswordCriteria(password) ==
  {c \in 1..6 :
     CASE c = 1 -> Len(password) >= 8
       [] c = 2 -> Len(password) >= 12
       [] c = 3 -> \E i \in DOMAIN password : password[i] \in Upper
       [] c = 4 -> \E i \in DOMAIN password : password[i] \in Lower
       [] c = 5 -> \E i \in DOMAIN password : password[i] \in Digits
       [] OTHER -> \E i \in DOMAIN password : password[i] \notin (Upper \cup Lower \cup Digits)}

\* C13: the strength is weak when fewer than 3 of the six criteria hold,
\* medium when 3 or 4 hold and strong when 5 or 6 hold; "abc" and the empty
\* password are weak, "Abcdef12" is at least medium and
\* "Abcdef123!@#longenough" is strong.
C13_PasswordStrength ==
  pwPc = "scored" =>
    LET score == Cardinality(PasswordCriteria(pwPassword))
    IN  /\ pwStrength = (IF score < 3 THEN "weak" ELSE IF score < 5 THEN "medium" ELSE "strong")
        /\ pwPassword \in {<<>>, PasswordAbc} => pwStrength = "weak"
        /\ pwPassword = PasswordAbcdef12 => pwStrength \in {"medium", "strong"}
        /\ pwPassword = PasswordLong => pwStrength = "strong"

\* the long example was scored, strong on all six criteria
C13_Witness ==
  /\ pwPc = "scored"
  /\ pwPassword = PasswordLong
  /\ pwStrength = "strong"
  /\ Cardinality(PasswordCriteria(pwPassword)) = 6

\* C14: a field with isVisible = false is drawn as nothing, whatever its kind
\* and value, by the create form and by the edit form.
C14_HiddenField ==
  (vwOutput # "none" /\ vwField.isVisible = Bool(FALSE)) => vwOutput = "null"

\* C15: mapFieldTypeNameToEnum returns a member of FieldTypeEnum for every
\* name, and TEXT, with a warning, for a name that is no value of the enum
\* and, in upper case with '-' replaced by '_', no key of it.
C15_MapTotal ==
  mpPc = "mapped" =>
    /\ mpKind \in FieldTypeEnum
    /\ (/\ \A i \in DOMAIN EnumEntries : EnumEntries[i].value # mpName
        /\ \A i \in DOMAIN EnumEntries :
             EnumEntries[i].key # [j \in DOMAIN mpName |->
                                     IF ToUpperChar(mpName[j]) = "-" THEN "_"
                                     ELSE ToUpperChar(mpName[j])])
       => (mpKind = "text" /\ mpWarned)

\* an unknown name was mapped to TEXT with a warning
C15_Witness ==
  /\ mpPc = "mapped"
  /\ mpName = <<"v", "a", "r", "c", "h", "a", "r">>
  /\ mpKind = "text"
  /\ mpWarned

(***************************************************************************)
(* Claims about the field list and the save controls                       *)
(***************************************************************************)
\* C16: the apiId values of the fields of the collection's field list are
\* pairwise distinct, after any sequence of add, edit and delete saves.
C16_ApiIdUnique ==
  \A i \in DOMAIN fields : \A j \in DOMAIN fields :
    i # j => fields[i].apiId # fields[j].apiId

\* C17: the Field handed to the save callback, by "Finish" or by "Add another
\* field", has a name of at least 2 characters and an apiId of at least 2
\* characters, all of them in [a-zA-Z0-9_].
C17_ValidationBlocks ==
  saved # NoField =>
    /\ Len(saved.name) >= 2
    /\ Len(saved.apiId) >= 2
    /\ \A i \in DOMAIN saved.apiId : saved.apiId[i] \in Letters \cup Digits \cup {"_"}

(***************************************************************************)
(* Claims about the session and the field type fetches                     *)
(***************************************************************************)
\* C18: once a response with status 401 has been handled, the client holds
\* no token, neither cms_token nor the token of the auth store, and the
\* location is /login.
C18_UnauthorizedClears ==
  lastResponse.status = 401 =>
    /\ cmsToken = Null
    /\ authToken = Null
    /\ location = "/login"

\* C19 as stated: after a successful field type response the option list is
\* the one built from the response that arrived last.
C19_LastArrivalWins ==
  ftArrivals # <<>> => ftOptions = BuildOptions(ftArrivals[Len(ftArrivals)].data)

\* C19, amended: after a successful field type response the option list is
\* the one built from the response that arrived last, whatever the order of
\* issue, unless that response is the empty array, in which case the list is
\* the six fallback options.
C19_LastArrivalWinsOrFallback ==
  ftArrivals # <<>> =>
    LET data == ftArrivals[Len(ftArrivals)].data
    IN  ftOptions = (IF data = <<>> THEN FallbackOptions ELSE BuildOptions(data))

\* two fetches overlapped, the one issued later was answered first, and the
\* list is the one of the fetch issued first, answered last
C19_Witness ==
  /\ Len(ftArrivals) >= 2
  /\ ftArrivals[1].id > ftArrivals[2].id
  /\ ftArrivals[1].data # ftArrivals[2].data
  /\ ftArrivals[2].data # <<>>
  /\ ftOptions = BuildOptions(ftArrivals[2].data)

(***************************************************************************)
(* Claims about the JSON widget                                            *)
(***************************************************************************)
\* texts that are JSON, with the value each stands for, and texts that are
\* not
JsonSamples ==
  {<<<<"1", "0">>, JsonNumber(<<"1", "0">>)>>,
   <<<<"0">>, JsonNumber(<<"0">>)>>,
   <<<<"\"", "a", "\"">>, JsonString(<<"a">>)>>,
   <<<<"[", "]">>, JsonArray(<<>>)>>,
   <<<<"[", "1", "]">>, JsonArray(<<JsonNumber(<<"1">>)>>)>>,
   <<<<"[", "[", "]", "]">>, JsonArray(<<JsonArray(<<>>)>>)>>}

NotJsonSamples ==
  {<<>>, <<"a">>, <<"0", "1">>, <<"[">>, <<"\"", "a">>, <<"[", ",", "]">>,
   <<"[", "1", ",", "]">>, <<"1", "]">>, <<"1", "a">>}

\* C20: an edit of the JSON widget calls onChange once: with the parsed
\* value when the text is JSON and with the text itself when it is not; the
\* form then holds that argument, so a text that parses replaces a raw
\* string held before.
C20_JsonEdit ==
  jsText.edited =>
    /\ Len(jsCalls) = 1
    /\ jsValue = jsCalls[1]
    /\ jsCalls[1] = (IF JSONParse(jsText.text).ok THEN JSONParse(jsText.text).val
                     ELSE JsonString(jsText.text))
    /\ \A sample \in JsonSamples : jsText.text = sample[1] => jsCalls[1] = sample[2]
    /\ jsText.text \in NotJsonSamples => jsCalls[1] = JsonString(jsText.text)

\* the text "[]" was reached by an edit (from "[" or "]", held as raw
\* strings, or from a longer text) and the form holds the empty array
C20_Witness ==
  /\ jsText.edited
  /\ jsText.text = <<"[", "]">>
  /\ jsValue = JsonArray(<<>>)
  /\ jsCalls = <<JsonArray(<<>>)>>

(***************************************************************************)
(* Claims about ContentForm                                                *)
(***************************************************************************)
GroupNames == {gpGroups[k].name : k \in 1..Len(gpGroups)}

GroupOf(field) == IF field.dependOn = "" THEN "main" ELSE field.dependOn

\* the ids of the fields of the collection that belong to the group, in the
\* order of the collection's field list
RECURSIVE IdsOfGroup(_, _, _)
IdsOfGroup(list, i, name) ==
  IF i > Len(list) THEN <<>>
  ELSE (IF GroupOf(list[i]) = name THEN <<list[i].id>> ELSE <<>>)
       \o IdsOfGroup(list, i + 1, name)

\* C21: once ContentForm has rendered, the groups partition the fields:
\* the group names are "main" and the dependOn values in use, each once, and
\* each group holds exactly the fields that belong to it, in the order of
\* the collection's field list.
C21_FieldGroups ==
  gpPc # "idle" =>
    /\ gpPc = "rendered"
    /\ GroupNames = {"main"} \cup {GroupOf(gpFields[i]) : i \in 1..Len(gpFields)}
    /\ \A k, l \in 1..Len(gpGroups) : gpGroups[k].name = gpGroups[l].name => k = l
    /\ \A k \in 1..Len(gpGroups) :
         [j \in 1..Len(gpGroups[k].fields) |-> gpGroups[k].fields[j].id]
           = IdsOfGroup(gpFields, 1, gpGroups[k].name)

\* the same, for collections in which no dependOn is a property name
\* inherited from Object.prototype
GroupsWhenNoInheritedKey ==
  (gpPc # "idle" /\ \A i \in 1..Len(gpFields) : gpFields[i].dependOn \notin ObjectPrototypeKeys)
    => /\ gpPc = "rendered"
       /\ GroupNames = {"main"} \cup {GroupOf(gpFields[i]) : i \in 1..Len(gpFields)}
       /\ \A k \in 1..Len(gpGroups) :
            [j \in 1..Len(gpGroups[k].fields) |-> gpGroups[k].fields[j].id]
              = IdsOfGroup(gpFields, 1, gpGroups[k].name)

(***************************************************************************)
(* Claims about the NUMBER widget                                          *)
(***************************************************************************)
\* C22: with attributes.min <= attributes.max, every number passed to
\* onChange lies in [min, max], and a button click that calls onChange
\* passes the value before the click plus or minus the step (1 when unset).
C22_NumberRange ==
  (nwField.min # Undef /\ nwField.max # Undef /\ nwField.min.n <= nwField.max.n
   /\ nwLast.called /\ nwLast.arg.t = "number")
    => /\ nwField.min.n <= nwLast.arg.n
       /\ nwLast.arg.n <= nwField.max.n
       /\ nwLast.handler = "increment"
            => nwLast.arg.n = ParseValueOrZero(nwLast.before)
                              + (IF Falsy(nwField.step) THEN 1 ELSE nwField.step.n)
       /\ nwLast.handler = "decrement"
            => nwLast.arg.n = ParseValueOrZero(nwLast.before)
                              - (IF Falsy(nwField.step) THEN 1 ELSE nwField.step.n)

\* the typed edits alone keep the value in [min, max]
TypedNumberInRange ==
  (nwField.min # Undef /\ nwField.max # Undef /\ nwField.min.n <= nwField.max.n
   /\ nwLast.handler = "change" /\ nwLast.arg.t = "number")
    => nwField.min.n <= nwLast.arg.n /\ nwLast.arg.n <= nwField.max.n

(***************************************************************************)
(* Claims about the flags of a collection                                  *)
(***************************************************************************)
\* C23: every request that writes a collection has an additionalInformation
\* text, and the unpack of the fetch path reads from it the three flags the
\* client holds.
C23_FlagsRoundTrip ==
  pkPc = "sent" => pkBody.hasAdditionalInformation /\ Unpack(pkBody) = pkFlags

\* the creation from the dialog packs the flags and the unpack returns them
DialogRoundTrip ==
  (pkPc = "sent" /\ pkPath = "dialog")
    => pkBody.hasAdditionalInformation /\ Unpack(pkBody) = pkFlags

(***************************************************************************)
(* Claims about the field list of the store                                *)
(***************************************************************************)
\* the list after is the list before with one entry replaced in place by a
\* Field of the same id
ReplacedInPlace(before, after) ==
  /\ Len(after) = Len(before)
  /\ \E i \in 1..Len(before) :
       /\ after[i].id = before[i].id
       /\ \A j \in 1..Len(before) : j # i => after[j] = before[j]

\* the list after is the list before with one Field appended under a
\* temporary id
AppendedAtEnd(before, after) ==
  /\ Len(after) = Len(before) + 1
  /\ SubSeq(after, 1, Len(before)) = before
  /\ after[Len(after)].id.temp

\* C24: the response of a save changes the field list of the store by
\* replacing one entry in place by a Field of the same id, or by appending
\* one Field under a temporary id; every other entry stays where it is.
C24_SaveKeepsOrder ==
  [][(requests' # requests /\ fields' # fields)
       => ReplacedInPlace(fields, fields') \/ AppendedAtEnd(fields, fields')]_vars

\* the list the handler sends is the list it read, with one entry replaced
\* or one Field appended, or as it is when no entry has the id
SaveRequestKeepsOrder ==
  [][(now' # now)
       => \/ ReplacedInPlace(fields, sent')
          \/ AppendedAtEnd(fields, sent')
          \/ sent' = fields]_vars

(***************************************************************************)
(* Claims about failed calls                                               *)
(***************************************************************************)
\* C25 as stated: the answer to a failed update or deletion leaves the
\* collection store as it was and does nothing else than notify: the
\* session and the page stay as they are.
C25_FailureKeepsState ==
  [][(answers' # answers /\ lastResponse'.status # 200)
       => /\ fields' = fields
          /\ collections' = collections
          /\ cmsToken' = cmsToken
          /\ location' = location]_vars

\* C25: the answer to an update or deletion that failed with a status other
\* than 401 leaves the collection store, the tokens and the location as
\* they were.
C25_FailureKeepsStateUnless401 ==
  [][(answers' # answers /\ lastResponse'.status \notin {200, 401})
       => /\ fields' = fields
          /\ collections' = collections
          /\ cmsToken' = cmsToken
          /\ location' = location]_vars

\* a failed call was answered while the store held a field and collections
C25_Witness ==
  /\ answers > 0
  /\ lastResponse.status = 500
  /\ fields # <<>>
  /\ collections = CollectionIds

(***************************************************************************)
(* Claims about the create-collection dialog                               *)
(***************************************************************************)
\* C26: once a creation has failed (the connection check, the listing or
\* the create call) and handleSaveCollection has returned, isLoading of the
\* dialog is false again, so the submit button is enabled.
C26_LoadingReset ==
  (cdPc = "idle" /\ cdLast = "failed") => ~isLoading

(***************************************************************************)
(* Claims about the reuse of the field dialog                              *)
(***************************************************************************)
\* C27: the Field the dialog hands to the save callback for a new field has
\* the kind chosen last in the field type picker.
C27_FreshDialog ==
  (saved # NoField /\ fieldToEdit = NoField) => saved.type = selectedFieldType

(***************************************************************************)
(* Claims about the state of the field type fetch                          *)
(***************************************************************************)
\* C28: when a field type fetch succeeds, the error of the field type store
\* is null afterwards, whatever an earlier fetch left there.
C28_ErrorReset ==
  [][Len(ftArrivals') > Len(ftArrivals) => ftError' = Null]_vars

\* C30: the loading flag of the field type store is true exactly while a
\* field type fetch is in flight.
C30_LoadingFlag ==
  ftLoading <=> (\E call \in calls : call.api = "field-types")

(***************************************************************************)
(* Claims about the two copies of the token                                *)
(***************************************************************************)
\* C29: the token of the auth store and the cms_token entry of localStorage
\* are both there or both missing.
C29_TokensInStep ==
  (authToken = Null) <=> (cmsToken = Null)

====
